---- MODULE Spec2Model ----
(***************************************************************************)
(* Manifest-driven install / uninstall orchestration of the bootstrapper   *)
(* (crates/xiaohai-bootstrapper/src/main.rs) over an abstract host: the    *)
(* program-data tree, the install root, the desktop, the HKLM Run key, the *)
(* service manager and the firewall.  Every fallible call of the code is a *)
(* step that either succeeds or fails; `log` records the calls a run made. *)
(***************************************************************************)
EXTENDS Integers, Sequences, FiniteSets, TLC

VARIABLES manifest, host, inst, unin, log, runs, faults, pre, hist, stdout, call,
          auth, conn, agent

vars == <<manifest, host, inst, unin, log, runs, faults, pre, hist, stdout, call,
          auth, conn, agent>>

(* ---------------------------------------------------------------- bounds *)
MaxModules == 2     \* modules in a manifest
MaxRules == 2       \* firewall rules in a manifest
MaxRuns == 2        \* commands run one after the other on a host
TicksPerSecond == 2 \* clock readings per second (OffsetDateTime is sub-second)
MaxClock == 6       \* latest clock reading, in ticks
MaxTtl == 2         \* longest ttl, in seconds
MaxSkew == 2        \* largest allowed_clock_skew, in ticks
MaxLines == 3       \* lines a client sends on a connection
MaxControls == 3    \* control events the service manager sends to the agent
MaxFaults == 2      \* failing external operations in a behaviour

None == "None"      \* Option::None of an Option<String>

(* --------------------------------------------------------------- helpers *)
Range(s) == {s[k] : k \in 1..Len(s)}

RECURSIVE Concat(_)
Concat(ss) == IF ss = <<>> THEN <<>> ELSE Head(ss) \o Concat(Tail(ss))

(* str::replace(key, value) for a one-character key: every occurrence of    *)
(* the key, left to right, becomes the value.                               *)
Replace(content, key, value) ==
    Concat([k \in 1..Len(content) |->
              IF content[k] = key THEN value ELSE <<content[k]>>])

RECURSIVE ReplaceAll(_, _)
ReplaceAll(content, kvs) ==
    IF kvs = <<>> THEN content
    ELSE ReplaceAll(Replace(content, Head(kvs).key, Head(kvs).value), Tail(kvs))

(* ------------------------------------------------------------- manifests *)
PayloadText == <<"a">>          \* text of the payload's configuration file

NoInstaller == [some |-> FALSE, path |-> "", success_exit_codes |-> <<>>]
Installer(codes) == [some |-> TRUE, path |-> "setup.exe", success_exit_codes |-> codes]
NoPayload == [some |-> FALSE, path |-> "", install_subdir |-> None]
Payload(subdir) == [some |-> TRUE, path |-> "payload/myapp", install_subdir |-> subdir]
NoPlugin == [some |-> FALSE, id |-> 0]
Plugin(id) == [some |-> TRUE, id |-> id]
NoConfig == [data_subdir |-> None, file_replacements |-> <<>>]
DetectReg(kind, expected, dword, sz) ==
    [rule |-> "registry_value", path |-> "", kind |-> kind, expected |-> expected,
     dword |-> dword, sz |-> sz]
DetectNone == [DetectReg("dword", "dword_at_least", 0, "") EXCEPT !.rule = "none"]
DetectFile(path) ==
    [DetectReg("dword", "dword_at_least", 0, "") EXCEPT !.rule = "file_exists", !.path = path]

Module(enabled, kind, detect, payload, installer, uninstaller, shortcuts, plugin, config) ==
    [enabled |-> enabled, kind |-> kind, detect |-> detect, payload |-> payload,
     installer |-> installer, uninstaller |-> uninstaller,
     remove_desktop_shortcuts |-> shortcuts, plugin |-> plugin, config |-> config]

NoPrereq == [enabled |-> FALSE, installer |-> NoInstaller]

Manifest(modules, prereq, shortcuts, autorun, service, firewall, post) ==
    [product_code |-> "test-product", version |-> "0.0.0", install_root |-> "InstallRoot",
     prerequisites |-> prereq, modules |-> modules, shortcuts |-> shortcuts,
     post_config |-> post, firewall |-> firewall, service |-> service, autorun |-> autorun]

NoPrereqs == [dotnet_fx48 |-> NoPrereq, vcredist_2015_2022_x64 |-> NoPrereq]
DefaultPost == [data_root |-> None, plugin_dir |-> None]
NoShortcuts == [desktop |-> FALSE, start_menu |-> FALSE]
NoAutorun == [enabled |-> FALSE, name |-> ""]
NoService == [enabled |-> FALSE, name |-> ""]
NoFirewall == [enabled |-> FALSE, rules |-> <<>>]

(* The module of tests/e2e_install_uninstall_filecopy.rs, at position k.    *)
FileCopyModule(k, detect, subdir) ==
    Module(TRUE, "file_copy", detect, Payload(subdir), NoInstaller, NoInstaller,
           <<>>, Plugin(k), [data_subdir |-> "module", file_replacements |-> <<>>])

(* The shapes a module at position k takes in the module family.            *)
ModuleShapes(k) ==
    { FileCopyModule(k, DetectNone, "appdir"),
      FileCopyModule(k, DetectFile("own"), None),
      Module(TRUE, "file_copy", DetectFile("ext"), NoPayload, NoInstaller, NoInstaller,
             <<>>, NoPlugin, NoConfig),
      Module(FALSE, "file_copy", DetectNone, Payload("appdir"), NoInstaller, NoInstaller,
             <<"Vendor">>, Plugin(k), [data_subdir |-> "module", file_replacements |-> <<>>]),
      Module(FALSE, "msi", DetectFile("own"), NoPayload, Installer(<<>>), Installer(<<>>),
             <<"Vendor">>, Plugin(k), NoConfig),
      Module(TRUE, "msi", DetectFile("own"), NoPayload, Installer(<<>>), Installer(<<>>),
             <<"Vendor">>, Plugin(k), NoConfig),
      Module(TRUE, "msi", DetectReg("dword", "dword_at_least", 5, ""), NoPayload, NoInstaller,
             Installer(<<42>>), <<>>, NoPlugin, NoConfig),
      Module(TRUE, "exe", DetectFile(""), NoPayload, Installer(<<42>>), NoInstaller,
             <<>>, NoPlugin, [data_subdir |-> "module", file_replacements |-> <<>>]) }

RECURSIVE ModuleLists(_)
ModuleLists(n) ==
    IF n = 0 THEN {<<>>}
    ELSE LET shorter == ModuleLists(n - 1)
         IN  shorter \cup {Append(ms, m) : ms \in {x \in shorter : Len(x) = n - 1},
                                           m \in ModuleShapes(n)}

ModuleFamily ==
    { Manifest(ms, NoPrereqs, [desktop |-> TRUE, start_menu |-> FALSE],
               NoAutorun, NoService, NoFirewall, DefaultPost)
        : ms \in ModuleLists(MaxModules) \ {<<>>} }

RuleNames == {"r1", "r2", "r3"}
RuleName(k) == IF k = 1 THEN "r1" ELSE IF k = 2 THEN "r2" ELSE "r3"

(* Firewall rule lists: r1, r2, ...; the longest also with r1 repeated.     *)
RuleLists ==
    { [k \in 1..n |-> RuleName(k)] : n \in 1..MaxRules }
      \cup { [k \in 1..MaxRules |-> "r1"] }

(* One file-copy module, every combination of the system integration.       *)
IntegrationFamily ==
    { Manifest(<<FileCopyModule(1, DetectFile("own"), "appdir")>>, NoPrereqs,
               sc, ar,
               [enabled |-> sv, name |-> "XiaoHaiAgent"], fw, DefaultPost)
        : sc \in {NoShortcuts, [desktop |-> TRUE, start_menu |-> FALSE],
                   [desktop |-> TRUE, start_menu |-> TRUE]},
          sv \in BOOLEAN,
          ar \in {NoAutorun, [enabled |-> TRUE, name |-> ""], [enabled |-> TRUE, name |-> "Run"]},
          fw \in {NoFirewall} \cup {[enabled |-> TRUE, rules |-> fr] : fr \in RuleLists} }

(* Text replacement in a file of the module itself or of the one before it. *)
ReplaceFamily ==
    { Manifest(<<FileCopyModule(1, det, "appdir"),
                 Module(TRUE, "file_copy", DetectNone, Payload(None), NoInstaller, NoInstaller,
                        <<>>, NoPlugin,
                        [data_subdir |-> None,
                         file_replacements |-> <<[file |-> f, replacements |-> kvs]>>])>>,
               NoPrereqs, NoShortcuts, NoAutorun, NoService, NoFirewall, DefaultPost)
        : det \in {DetectNone, DetectFile("own")}, f \in {"appdir", "m2"},
          kvs \in { <<[key |-> "a", value |-> <<"b">>]>>,
                    <<[key |-> "a", value |-> <<"a", "a">>]>> } }

(* Two file-copy modules and a desktop shortcut behind the prerequisites.   *)
PrereqFamily ==
    { Manifest(<<FileCopyModule(1, DetectNone, "appdir"),
                 FileCopyModule(2, DetectFile("own"), None)>>,
               [dotnet_fx48 |-> p1, vcredist_2015_2022_x64 |-> p2],
               [desktop |-> TRUE, start_menu |-> FALSE], NoAutorun, NoService, NoFirewall, DefaultPost)
        : p1 \in {NoPrereq, [enabled |-> TRUE, installer |-> Installer(<<>>)],
                  [enabled |-> TRUE, installer |-> NoInstaller]},
          p2 \in {NoPrereq, [enabled |-> TRUE, installer |-> Installer(<<>>)]} }

CustomPluginDir == "D:/plugins"
CustomDataRoot == "D:/data"

(* A native module that declares no uninstaller, then a file-copy module,   *)
(* with every combination of post_config.data_root and plugin_dir.          *)
PostConfigFamily ==
    { Manifest(<<Module(TRUE, "msi", DetectFile("own"), NoPayload, Installer(<<>>), NoInstaller,
                        <<>>, NoPlugin, NoConfig),
                 FileCopyModule(2, DetectNone, "appdir")>>,
               NoPrereqs, NoShortcuts, NoAutorun, NoService, NoFirewall,
               [data_root |-> dr, plugin_dir |-> pd])
        : dr \in {None, CustomDataRoot}, pd \in {None, CustomPluginDir} }

(* Two file-copy modules whose plugin registrations have the same id or     *)
(* different ids; the first module may be found installed.                  *)
PluginFamily ==
    { Manifest(<<[FileCopyModule(1, det, "appdir") EXCEPT !.config = NoConfig],
                 [FileCopyModule(2, DetectNone, None) EXCEPT !.plugin = Plugin(id),
                                                             !.config = NoConfig]>>,
               NoPrereqs, NoShortcuts, NoAutorun, NoService, NoFirewall, DefaultPost)
        : det \in {DetectFile("ext"), DetectFile("own")}, id \in {1, 2} }

Manifests ==
    ModuleFamily \cup IntegrationFamily \cup ReplaceFamily \cup PrereqFamily
      \cup PostConfigFamily \cup PluginFamily

(* ------------------------------------------------------------------ host *)
(* modules[k].id: the modules of a manifest are named by their position.    *)
ModuleId(k) == IF k = 1 THEN "m1" ELSE IF k = 2 THEN "m2" ELSE IF k = 3 THEN "m3" ELSE "m4"

DOTNET_FX48_RELEASE == 528040
DotnetValues == {-1, DOTNET_FX48_RELEASE - 1, DOTNET_FX48_RELEASE}  \* -1: no key or value
VcValues == {-1, 0, 1}

RegAbsent == [type |-> "absent", dword |-> 0, sz |-> ""]
RegDword(v) == [type |-> "dword", dword |-> v, sz |-> ""]
RegSz(v) == [type |-> "sz", dword |-> 0, sz |-> v]
RegValues == {RegAbsent, RegDword(4), RegDword(5), RegSz("5")}

ProgramData == "ProgramData/XiaoHaiAssistant"
DefaultPluginDir == "ProgramData/XiaoHaiAssistant/plugins"
DefaultDataRoot == "ProgramData/XiaoHaiAssistant/data"

EmptyState ==
    [state_id |-> 0, product_code |-> "", version |-> "", modules |-> <<>>,
     created_shortcuts |-> <<>>, firewall_rules |-> <<>>,
     service_name |-> None, autorun_name |-> None]

NoStateFile == [exists |-> FALSE, parses |-> FALSE, state |-> EmptyState]

(* A host on which the product was never installed.  `present` are the     *)
(* modules whose product another mechanism installed, `ext` tells whether   *)
(* the file of a file_exists rule outside the install root exists.          *)
FreshHost(present, ext, reg, dotnet, vc) ==
    [dirs |-> {},                 \* directories under ProgramData and custom roots
     data_dirs |-> {},            \* module data directories, <<root, subdir>>
     state_file |-> NoStateFile,  \* install-state.json
     plugins |-> {},              \* registration artifacts [dir, id, module_id]
     install_root |-> FALSE,
     module_dirs |-> {},          \* destination directories under the install root
     text |-> [d \in {"appdir", "m1", "m2", "m3", "m4"} |-> <<>>],
     present |-> present,         \* products of msi/exe modules on the host
     ext_file |-> ext,
     links |-> {},                \* .lnk files on the desktop and start menu
     run |-> {},                  \* values of the HKLM Run key
     services |-> {},
     firewall |-> [r \in RuleNames |-> 0],   \* rules of each name
     reg |-> reg,                 \* the value a registry_value rule reads
     dotnet_release |-> dotnet,
     vc_installed |-> vc]

(* InstallState::new: state_id is fresh for every run.                      *)
NewInstallState(id, product_code, version) ==
    [state_id |-> id, product_code |-> product_code, version |-> version,
     modules |-> <<>>, created_shortcuts |-> <<>>, firewall_rules |-> <<>>,
     service_name |-> None, autorun_name |-> None]

(* format!("{:?}", module.kind) *)
KindDebug(kind) ==
    CASE kind = "msi" -> "Msi" [] kind = "exe" -> "Exe" [] OTHER -> "FileCopy"

(* Mutant: every state entry records the manifest's install root.           *)
InstalledModuleRooted(k, m, root) ==
    [id |-> ModuleId(k), kind |-> KindDebug(m.kind), installed |-> TRUE,
     install_root |-> "InstallRoot", uninstall_hint |-> None]

InstalledModule(k, m, root) ==
    [id |-> ModuleId(k), kind |-> KindDebug(m.kind), installed |-> TRUE,
     install_root |-> root, uninstall_hint |-> None]

(* paths::resolve_path: an empty path is an error.                          *)
resolve_path(raw) == IF raw = "" THEN "err" ELSE raw

(* Mutant: a stored value of another type than the declared kind compares   *)
(* as false.                                                                *)
detect_registry_rule_lenient(rule, stored) ==
    IF stored.type = "absent" THEN "err"
    ELSE IF rule.kind = "dword" /\ stored.type = "dword"
         THEN CASE rule.expected = "dword_at_least" -> IF stored.dword >= rule.dword THEN "true" ELSE "false"
                [] rule.expected = "dword_equals" -> IF stored.dword = rule.dword THEN "true" ELSE "false"
                [] OTHER -> "false"
         ELSE IF rule.kind = "sz" /\ stored.type = "sz" /\ rule.expected = "sz_equals"
              THEN IF stored.sz = rule.sz THEN "true" ELSE "false"
              ELSE "false"

(* Mutant: a value that cannot be read as the declared kind is "not there". *)
detect_registry_rule_unreadable_false(rule, stored) ==
    IF stored.type # rule.kind THEN "false"
    ELSE IF rule.kind = "dword"
         THEN CASE rule.expected = "dword_at_least" -> IF stored.dword >= rule.dword THEN "true" ELSE "false"
                [] rule.expected = "dword_equals" -> IF stored.dword = rule.dword THEN "true" ELSE "false"
                [] OTHER -> "false"
         ELSE IF rule.expected = "sz_equals"
              THEN IF stored.sz = rule.sz THEN "true" ELSE "false"
              ELSE "false"

(* Mutant: dword_at_least compares strictly.                                *)
detect_registry_rule_strict(rule, stored) ==
    IF stored.type = "absent" THEN "err"
    ELSE IF rule.kind = "dword"
         THEN IF stored.type # "dword" THEN "err"
              ELSE CASE rule.expected = "dword_at_least" -> IF stored.dword > rule.dword THEN "true" ELSE "false"
                     [] rule.expected = "dword_equals" -> IF stored.dword = rule.dword THEN "true" ELSE "false"
                     [] OTHER -> "false"
         ELSE IF stored.type # "sz" THEN "err"
              ELSE IF rule.expected = "sz_equals"
                   THEN IF stored.sz = rule.sz THEN "true" ELSE "false"
                   ELSE "false"

(* registry::detect_registry_rule on the stored value.                      *)
detect_registry_rule(rule, stored) ==
    IF stored.type = "absent" THEN "err"
    ELSE IF rule.kind = "dword"
         THEN IF stored.type # "dword" THEN "err"
              ELSE CASE rule.expected = "dword_at_least" -> IF stored.dword >= rule.dword THEN "true" ELSE "false"
                     [] rule.expected = "dword_equals" -> IF stored.dword = rule.dword THEN "true" ELSE "false"
                     [] OTHER -> "false"
         ELSE IF stored.type # "sz" THEN "err"
              ELSE IF rule.expected = "sz_equals"
                   THEN IF stored.sz = rule.sz THEN "true" ELSE "false"
                   ELSE "false"

(* The destination of a file_copy module under the install root.            *)
Destination(k, m) ==
    IF m.payload.some /\ m.payload.install_subdir # None
    THEN m.payload.install_subdir ELSE ModuleId(k)

(* Whether the file a file_exists rule names exists on the host.            *)
PathExists(h, k, m, path) ==
    IF path = "own"
    THEN IF m.kind = "file_copy" THEN Destination(k, m) \in h.module_dirs
         ELSE k \in h.present
    ELSE h.ext_file

(* Mutant: a detector error is reported as not installed.                   *)
detect_module_installed_or_false(h, k, m) ==
    CASE m.detect.rule = "none" -> "false"
      [] m.detect.rule = "registry_value" ->
           IF detect_registry_rule(m.detect, h.reg) = "true" THEN "true" ELSE "false"
      [] OTHER -> IF resolve_path(m.detect.path) # "err" /\ PathExists(h, k, m, m.detect.path)
                  THEN "true" ELSE "false"

(* detect_module_installed: "true", "false" or "err".                       *)
detect_module_installed(h, k, m) ==
    CASE m.detect.rule = "none" -> "false"
      [] m.detect.rule = "registry_value" -> detect_registry_rule(m.detect, h.reg)
      [] OTHER -> IF resolve_path(m.detect.path) = "err" THEN "err"
                  ELSE IF PathExists(h, k, m, m.detect.path) THEN "true" ELSE "false"

(* run_installer: what the process did, "spawn_fail" or an exit code.       *)
ExitCodes == {-1, 0, 1, 42, 1641, 3010}    \* -1: status.code() is None
ProcessOutcomes == {[spawned |-> FALSE, code |-> 0]} \cup {[spawned |-> TRUE, code |-> c] : c \in ExitCodes}

(* Mutant: the default success codes whatever the installer lists.          *)
ok_codes_default(installer) == {0, 3010, 1641}

ok_codes(installer) ==
    IF installer.success_exit_codes = <<>> THEN {0, 3010, 1641}
    ELSE Range(installer.success_exit_codes)

run_installer(installer, outcome) ==
    /\ resolve_path(installer.path) # "err"
    /\ outcome.spawned
    /\ outcome.code \in ok_codes(installer)

(* --------------------------------------------------------------- running *)
Finished == {"idle", "ok", "err"}
NoCommandRunning == inst.pc \in Finished /\ unin.pc \in Finished

(* An external operation may fail while the behaviour has faults left.      *)
Oks == IF faults < MaxFaults THEN BOOLEAN ELSE {TRUE}
Outcomes(installer) ==
    {o \in ProcessOutcomes : faults < MaxFaults \/ run_installer(installer, o)}
Fault(ok) == faults' = IF ok THEN faults ELSE faults + 1

L(op, m, name, ok) == [op |-> op, m |-> m, name |-> name, ok |-> ok]

(* Mutant: the loop takes every module, enabled or not.                     *)
NextEnabledOrNot(ms, i) == IF i > Len(ms) THEN Len(ms) + 1 ELSE i

(* `for module in &manifest.modules { if !module.enabled { continue; } ...`: *)
(* the first enabled module at position i or later, Len + 1 if none.        *)
RECURSIVE NextEnabled(_, _)
NextEnabled(ms, i) ==
    IF i > Len(ms) THEN Len(ms) + 1
    ELSE IF ms[i].enabled THEN i ELSE NextEnabled(ms, i + 1)

EnabledModules(ms) == {k \in 1..Len(ms) : ms[k].enabled}

(* XIAOHAI_TEST_ALLOW_NON_ADMIN, unset or set to a value.                   *)
EnvValues == {"unset", "0", "1"}

(* allow_non_admin_for_tests: matches!(env::var(..).as_deref(), Ok("1"))    *)
allow_non_admin_for_tests(v) == v = "1"

(* Mutant: the privilege check lets every process through.                  *)
PrivilegedAlways(bypass, admin) == TRUE

(* allow_non_admin_for_tests() || is_running_as_admin(), then load_manifest *)
Privileged(bypass, admin) == bypass \/ admin

Done(cmd, res, h) == hist' = Append(hist, [cmd |-> cmd, res |-> res, host |-> h])

(* Mutant: the loop is left after its first pass.                           *)
AfterModuleLeavesLoop(run, i) == [run EXCEPT !.pc = "plugins", !.i = 0]

(* The loop head of install: the next enabled module after position i, or   *)
(* write_plugins when there is none.                                        *)
AfterModule(run, i) ==
    LET n == NextEnabled(manifest.modules, i + 1) IN
    IF n <= Len(manifest.modules)
    THEN [run EXCEPT !.pc = "detect", !.i = n]
    ELSE [run EXCEPT !.pc = "plugins", !.i = 0]

(* Mutant: an error is logged and the run goes on with the next module.     *)
InstallFailGoesOn(h, entries) ==
    /\ host' = h
    /\ inst' = AfterModule(inst, inst.i)
    /\ log' = log \o entries
    /\ UNCHANGED hist

(* `?` in install: the run returns the error.                               *)
InstallFail(h, entries) ==
    /\ host' = h
    /\ inst' = [inst EXCEPT !.pc = "err"]
    /\ log' = log \o entries
    /\ Done("install", "err", h)

InstallGo(h, entries, next) ==
    /\ host' = h
    /\ inst' = next
    /\ log' = log \o entries
    /\ UNCHANGED hist

NoOutput == [res |-> "none", lines |-> <<>>]     \* nothing printed

(* A command's position; `unprivileged` records that the process was not    *)
(* elevated and the bypass variable was not "1" when the command started.   *)
IdleRun == [pc |-> "idle", i |-> 0, j |-> 0, state |-> EmptyState, loaded |-> FALSE,
            unprivileged |-> FALSE]

install_begin ==
    /\ NoCommandRunning
    /\ runs < MaxRuns
    /\ runs' = runs + 1
    /\ pre' = host
    /\ unin' = IdleRun
    /\ \E v \in EnvValues, admin \in BOOLEAN, loaded \in BOOLEAN :
         LET run == [IdleRun EXCEPT !.unprivileged = (v # "1" /\ ~admin)] IN
         IF ~Privileged(allow_non_admin_for_tests(v), admin)
         THEN /\ inst' = [run EXCEPT !.pc = "err"]
              /\ log' = <<L("privilege", 0, "install", FALSE)>>
              /\ Done("install", "err", host)
         ELSE IF ~loaded
         THEN /\ inst' = [run EXCEPT !.pc = "err"]
              /\ log' = <<L("load_manifest", 0, "install", FALSE)>>
              /\ Done("install", "err", host)
         ELSE /\ inst' = [run EXCEPT !.pc = "layout"]
              /\ log' = <<L("load_manifest", 0, "install", TRUE)>>
              /\ UNCHANGED hist
    /\ stdout' = NoOutput
    /\ UNCHANGED <<auth, conn, agent, call, manifest, host, faults>>

ensure_programdata_layout(h) ==
    [h EXCEPT !.dirs = @ \cup {ProgramData, DefaultPluginDir, DefaultDataRoot}]

install_layout ==
    /\ inst.pc = "layout"
    /\ \E ok \in Oks :
         /\ Fault(ok)
         /\ IF ok
            THEN InstallGo(ensure_programdata_layout(host),
                           <<L("ensure_programdata_layout", 0, "", TRUE)>>,
                           [inst EXCEPT !.pc = "prereq_dotnet"])
            ELSE InstallFail(host, <<L("ensure_programdata_layout", 0, "", FALSE)>>)
    /\ UNCHANGED <<auth, conn, agent, call, manifest, unin, runs, pre, stdout>>

(* Mutant: every readable release value counts as missing.                  *)
dotnet_fx48_status_missing(release) == IF release < 0 THEN "err" ELSE "Missing"

(* prereq::dotnet_fx48_status / vcredist_2015_2022_x64_status on the value  *)
(* read from the registry: "err" when the key or value is absent.           *)
dotnet_fx48_status(release) ==
    IF release < 0 THEN "err"
    ELSE IF release >= DOTNET_FX48_RELEASE THEN "Installed" ELSE "Missing"

vcredist_2015_2022_x64_status(installed) ==
    IF installed < 0 THEN "err"
    ELSE IF installed = 1 THEN "Installed" ELSE "Missing"

(* One prerequisite of install_prerequisites: `installedHost` is the host   *)
(* after the prerequisite's installer succeeded.                            *)
Prerequisite(name, item, status, installedHost, next) ==
    IF ~item.enabled
    THEN InstallGo(host, <<>>, next) /\ UNCHANGED faults
    ELSE IF status = "err"
    THEN InstallFail(host, <<L("prereq_status", 0, name, FALSE)>>) /\ UNCHANGED faults
    ELSE IF status = "Installed"
    THEN InstallGo(host, <<L("prereq_status", 0, name, TRUE)>>, next) /\ UNCHANGED faults
    ELSE IF ~item.installer.some
    THEN InstallFail(host, <<L("prereq_status", 0, name, TRUE),
                             L("missing_installer", 0, name, FALSE)>>) /\ UNCHANGED faults
    ELSE \E o \in Outcomes(item.installer) :
           LET ok == run_installer(item.installer, o) IN
           /\ Fault(ok)
           /\ IF ok
              THEN InstallGo(installedHost,
                             <<L("prereq_status", 0, name, TRUE),
                               L("run_installer", 0, name, TRUE)>>, next)
              ELSE InstallFail(host, <<L("prereq_status", 0, name, TRUE),
                                       L("run_installer", 0, name, FALSE)>>)

install_prereq_dotnet ==
    /\ inst.pc = "prereq_dotnet"
    /\ Prerequisite("dotnet_fx48", manifest.prerequisites.dotnet_fx48,
                    dotnet_fx48_status(host.dotnet_release),
                    [host EXCEPT !.dotnet_release = DOTNET_FX48_RELEASE],
                    [inst EXCEPT !.pc = "prereq_vc"])
    /\ UNCHANGED <<auth, conn, agent, call, manifest, unin, runs, pre, stdout>>

(* The second prerequisite; then InstallState::new and the module loop.     *)
install_prereq_vc ==
    /\ inst.pc = "prereq_vc"
    /\ Prerequisite("vcredist_2015_2022_x64", manifest.prerequisites.vcredist_2015_2022_x64,
                    vcredist_2015_2022_x64_status(host.vc_installed),
                    [host EXCEPT !.vc_installed = 1],
                    AfterModule([inst EXCEPT !.state =
                                   NewInstallState(runs, manifest.product_code, manifest.version)], 0))
    /\ UNCHANGED <<auth, conn, agent, call, manifest, unin, runs, pre, stdout>>

(* Mutant: the entry is put in front of the earlier ones.                   *)
PushModuleFront(run, entry) ==
    [run EXCEPT !.state.modules = <<entry>> \o @]

PushModule(run, entry) ==
    [run EXCEPT !.state.modules = Append(@, entry)]

(* Mutant: the descriptor is asked for before the detection result is used. *)
install_detect_requires_descriptor ==
    /\ inst.pc = "detect"
    /\ LET m == manifest.modules[inst.i]
           already == detect_module_installed(host, inst.i, m)
       IN  IF already = "err"
           THEN InstallFail(host, <<L("detect", inst.i, "err", FALSE)>>)
           ELSE IF m.kind \in {"msi", "exe"} /\ ~m.installer.some
           THEN InstallFail(host, <<L("detect", inst.i, already, TRUE),
                                    L("missing_installer", inst.i, "", FALSE)>>)
           ELSE IF m.kind = "file_copy" /\ ~m.payload.some
           THEN InstallFail(host, <<L("detect", inst.i, already, TRUE),
                                    L("missing_payload", inst.i, "", FALSE)>>)
           ELSE IF already = "true"
           THEN InstallGo(host, <<L("detect", inst.i, "true", TRUE)>>,
                          AfterModule(PushModule(inst, InstalledModule(inst.i, m, None)), inst.i))
           ELSE InstallGo(host, <<L("detect", inst.i, "false", TRUE)>>,
                          [inst EXCEPT !.pc = "install"])
    /\ UNCHANGED <<auth, conn, agent, call, manifest, unin, runs, faults, pre, stdout>>

(* install, lines 143-155: detection; a detected module is recorded with no *)
(* install_root and the loop continues.                                     *)
install_detect ==
    /\ inst.pc = "detect"
    /\ LET m == manifest.modules[inst.i]
           already == detect_module_installed(host, inst.i, m)
       IN  IF already = "err"
           THEN InstallFail(host, <<L("detect", inst.i, "err", FALSE)>>)
           ELSE IF already = "true"
           THEN InstallGo(host, <<L("detect", inst.i, "true", TRUE)>>,
                          AfterModule(PushModule(inst, InstalledModule(inst.i, m, None)), inst.i))
           ELSE InstallGo(host, <<L("detect", inst.i, "false", TRUE)>>,
                          [inst EXCEPT !.pc = "install"])
    /\ UNCHANGED <<auth, conn, agent, call, manifest, unin, runs, faults, pre, stdout>>

DesktopLink(name) == [folder |-> "Desktop", name |-> name]
ProgramsLink(name) == [folder |-> "Programs", name |-> name]

(* What a succeeding installer of module k leaves on the host: its product  *)
(* and the desktop icons the manifest lists for removal.                    *)
Installed(h, k, m) ==
    [h EXCEPT !.present = @ \cup {k},
              !.links = @ \cup {DesktopLink(n) : n \in Range(m.remove_desktop_shortcuts)}]

(* copy_recursively(src, dst): create_dir_all(dst) and every payload file.  *)
copy_recursively(h, dst) ==
    [h EXCEPT !.install_root = TRUE,
              !.module_dirs = @ \cup {dst},
              !.text[dst] = PayloadText]

(* install, lines 158-179: the installer of an msi/exe module, the copy of  *)
(* a file_copy module.                                                      *)
install_module ==
    /\ inst.pc = "install"
    /\ LET k == inst.i
           m == manifest.modules[k]
           next == [inst EXCEPT !.pc = "config"]
       IN  IF m.kind \in {"msi", "exe"}
           THEN IF ~m.installer.some
                THEN InstallFail(host, <<L("missing_installer", k, "", FALSE)>>) /\ UNCHANGED faults
                ELSE \E o \in Outcomes(m.installer) :
                       LET ok == run_installer(m.installer, o) IN
                       /\ Fault(ok)
                       /\ IF ok
                          THEN InstallGo(Installed(host, k, m),
                                         <<L("run_installer", k, "", TRUE)>>, next)
                          ELSE InstallFail(host, <<L("run_installer", k, "", FALSE)>>)
           ELSE IF ~m.payload.some
                THEN InstallFail(host, <<L("missing_payload", k, "", FALSE)>>) /\ UNCHANGED faults
                ELSE IF resolve_path(m.payload.path) = "err"
                THEN InstallFail(host, <<L("resolve_path", k, "", FALSE)>>) /\ UNCHANGED faults
                ELSE \E ok \in Oks :
                       /\ Fault(ok)
                       /\ IF ok
                          THEN InstallGo(copy_recursively(host, Destination(k, m)),
                                         <<L("copy_recursively", k, Destination(k, m), TRUE)>>, next)
                          ELSE InstallFail(host, <<L("copy_recursively", k, Destination(k, m), FALSE)>>)
    /\ UNCHANGED <<auth, conn, agent, call, manifest, unin, runs, pre, stdout>>

DataRoot == IF manifest.post_config.data_root # None
            THEN manifest.post_config.data_root ELSE DefaultDataRoot

RECURSIVE ApplyReplacements(_, _)
ApplyReplacements(h, frs) ==
    IF frs = <<>> THEN h
    ELSE LET fr == Head(frs)
             h2 == IF fr.file \in h.module_dirs     \* target.exists()
                   THEN [h EXCEPT !.text[fr.file] = ReplaceAll(@, fr.replacements)]
                   ELSE h
         IN  ApplyReplacements(h2, Tail(frs))

(* apply_module_config: the data subdirectory, then the file replacements.  *)
apply_module_config(h, m) ==
    LET h1 == IF m.config.data_subdir # None
              THEN [h EXCEPT !.dirs = @ \cup {DataRoot}
                                        \cup (IF DataRoot = DefaultDataRoot THEN {ProgramData} ELSE {}),
                             !.data_dirs = @ \cup {<<DataRoot, m.config.data_subdir>>}]
              ELSE h
    IN  ApplyReplacements(h1, m.config.file_replacements)

ConfigCanFail(h, m) ==
    \/ m.config.data_subdir # None
    \/ \E n \in 1..Len(m.config.file_replacements) :
          m.config.file_replacements[n].file \in h.module_dirs

(* install, lines 181-190: configuration, then the module's state entry.    *)
install_config ==
    /\ inst.pc = "config"
    /\ LET k == inst.i
           m == manifest.modules[k]
       IN  \E ok \in (IF ConfigCanFail(host, m) THEN Oks ELSE {TRUE}) :
             /\ Fault(ok)
             /\ IF ok
                THEN InstallGo(apply_module_config(host, m),
                               <<L("apply_module_config", k, "", TRUE)>>,
                               AfterModule(PushModule(inst,
                                   InstalledModule(k, m, manifest.install_root)), k))
                ELSE InstallFail(host, <<L("apply_module_config", k, "", FALSE)>>)
    /\ UNCHANGED <<auth, conn, agent, call, manifest, unin, runs, pre, stdout>>

PluginDir == IF manifest.post_config.plugin_dir # None
             THEN manifest.post_config.plugin_dir ELSE DefaultPluginDir

(* write_plugins: <plugin.id>.json for every enabled module declaring a     *)
(* plugin, the module id injected; a later file of the same name replaces   *)
(* an earlier one.                                                          *)
(* Mutant: only the modules the run installed itself are registered.        *)
RECURSIVE WritePluginsOfInstalled(_, _, _)
WritePluginsOfInstalled(files, ms, k) ==
    IF k > Len(ms) THEN files
    ELSE IF ~ms[k].enabled \/ ~ms[k].plugin.some
            \/ ~\E x \in 1..Len(inst.state.modules) :
                   /\ inst.state.modules[x].id = ModuleId(k)
                   /\ inst.state.modules[x].install_root # None
    THEN WritePluginsOfInstalled(files, ms, k + 1)
    ELSE WritePluginsOfInstalled(
           {f \in files : ~(f.dir = PluginDir /\ f.id = ms[k].plugin.id)}
             \cup {[dir |-> PluginDir, id |-> ms[k].plugin.id, module_id |-> ModuleId(k)]},
           ms, k + 1)

RECURSIVE WritePluginsFrom(_, _, _)
WritePluginsFrom(files, ms, k) ==
    IF k > Len(ms) THEN files
    ELSE IF ~ms[k].enabled \/ ~ms[k].plugin.some
    THEN WritePluginsFrom(files, ms, k + 1)
    ELSE WritePluginsFrom(
           {f \in files : ~(f.dir = PluginDir /\ f.id = ms[k].plugin.id)}
             \cup {[dir |-> PluginDir, id |-> ms[k].plugin.id, module_id |-> ModuleId(k)]},
           ms, k + 1)

(* Mutant: the plugin directory is made but no artifact is written.         *)
write_plugins_dir_only(h) ==
    [h EXCEPT !.dirs = @ \cup {PluginDir}
                        \cup (IF PluginDir = DefaultPluginDir THEN {ProgramData} ELSE {})]

write_plugins(h) ==
    [h EXCEPT !.dirs = @ \cup {PluginDir}
                        \cup (IF PluginDir = DefaultPluginDir THEN {ProgramData} ELSE {}),
              !.plugins = WritePluginsFrom(@, manifest.modules, 1)]

install_write_plugins ==
    /\ inst.pc = "plugins"
    /\ \E ok \in Oks :
         /\ Fault(ok)
         /\ IF ok
            THEN InstallGo(write_plugins(host), <<L("write_plugins", 0, "", TRUE)>>,
                           [inst EXCEPT !.pc = "remove_shortcuts"])
            ELSE InstallFail(host, <<L("write_plugins", 0, "", FALSE)>>)
    /\ UNCHANGED <<auth, conn, agent, call, manifest, unin, runs, pre, stdout>>

(* manage_shortcuts, lines 635-640: the desktop icons of the enabled        *)
(* modules in ks are removed.                                               *)
RemovedDesktopShortcuts(ms, ks) ==
    UNION {{DesktopLink(n) : n \in Range(ms[k].remove_desktop_shortcuts)} : k \in ks}

EnabledSeq(ms) == SelectSeq([k \in 1..Len(ms) |-> k], LAMBDA k : ms[k].enabled)

(* remove_shortcuts_from_desktop for each enabled module in manifest order; *)
(* the call of module ks[fail] fails (fail = 0: none does) and `?` ends the *)
(* run with the icons of the earlier modules removed.                       *)
install_remove_shortcuts ==
    /\ inst.pc = "remove_shortcuts"
    /\ LET ms == manifest.modules
           ks == EnabledSeq(ms)
       IN  \E fail \in (IF faults < MaxFaults THEN 0..Len(ks) ELSE {0}) :
             /\ Fault(fail = 0)
             /\ IF fail = 0
                THEN InstallGo([host EXCEPT !.links = @ \ RemovedDesktopShortcuts(ms, Range(ks))],
                               [n \in 1..Len(ks) |->
                                  L("remove_shortcuts_from_desktop", ks[n], "", TRUE)],
                               [inst EXCEPT !.pc = "desktop"])
                ELSE InstallFail([host EXCEPT !.links = @ \ RemovedDesktopShortcuts(
                                                 ms, {ks[n] : n \in 1..(fail - 1)})],
                                 [n \in 1..fail |->
                                    L("remove_shortcuts_from_desktop", ks[n], "", n < fail)])
    /\ UNCHANGED <<auth, conn, agent, call, manifest, unin, runs, pre, stdout>>

AssistantName == "XiaoHai"

(* Mutant: the created shortcut is not recorded in the state.               *)
CreateShortcutUnrecorded(wanted, location, link, next) ==
    IF ~wanted
    THEN InstallGo(host, <<>>, [inst EXCEPT !.pc = next]) /\ UNCHANGED faults
    ELSE \E ok \in Oks :
           /\ Fault(ok)
           /\ IF ok
              THEN InstallGo([host EXCEPT !.links = @ \cup {link}],
                             <<L("create_shortcut", 0, location, TRUE)>>,
                             [inst EXCEPT !.pc = next])
              ELSE InstallFail(host, <<L("create_shortcut", 0, location, FALSE)>>)

(* manage_shortcuts: create_shortcut at one location, recorded on success.  *)
CreateShortcut(wanted, location, link, next) ==
    IF ~wanted
    THEN InstallGo(host, <<>>, [inst EXCEPT !.pc = next]) /\ UNCHANGED faults
    ELSE \E ok \in Oks :
           /\ Fault(ok)
           /\ IF ok
              THEN InstallGo([host EXCEPT !.links = @ \cup {link}],
                             <<L("create_shortcut", 0, location, TRUE)>>,
                             [inst EXCEPT !.pc = next,
                                          !.state.created_shortcuts =
                                              Append(@, [location |-> location, path |-> link])])
              ELSE InstallFail(host, <<L("create_shortcut", 0, location, FALSE)>>)

install_shortcut_desktop ==
    /\ inst.pc = "desktop"
    /\ CreateShortcut(manifest.shortcuts.desktop, "desktop", DesktopLink(AssistantName), "start_menu")
    /\ UNCHANGED <<auth, conn, agent, call, manifest, unin, runs, pre, stdout>>

install_shortcut_start_menu ==
    /\ inst.pc = "start_menu"
    /\ CreateShortcut(manifest.shortcuts.start_menu, "start_menu", ProgramsLink(AssistantName), "autorun")
    /\ UNCHANGED <<auth, conn, agent, call, manifest, unin, runs, pre, stdout>>

(* Mutant: the manifest's autorun name is used as it is, empty or not.      *)
AutorunNameAsDeclared == manifest.autorun.name

(* The autorun value name install writes and uninstall falls back to.       *)
AutorunName == IF manifest.autorun.name = "" THEN "XiaoHaiAssistant" ELSE manifest.autorun.name

(* install_service_and_firewall, lines 692-707 *)
install_autorun ==
    /\ inst.pc = "autorun"
    /\ IF ~manifest.autorun.enabled
       THEN InstallGo(host, <<>>, [inst EXCEPT !.pc = "service"]) /\ UNCHANGED faults
       ELSE \E ok \in Oks :
              /\ Fault(ok)
              /\ IF ok
                 THEN InstallGo([host EXCEPT !.run = @ \cup {AutorunName}],
                                <<L("set_hklm_run", 0, AutorunName, TRUE)>>,
                                [inst EXCEPT !.pc = "service", !.state.autorun_name = AutorunName])
                 ELSE InstallFail(host, <<L("set_hklm_run", 0, AutorunName, FALSE)>>)
    /\ UNCHANGED <<auth, conn, agent, call, manifest, unin, runs, pre, stdout>>

(* install_service_and_firewall, lines 709-719; an existing service of the  *)
(* name is opened instead of created.                                       *)
install_service ==
    /\ inst.pc = "service"
    /\ IF ~manifest.service.enabled
       THEN InstallGo(host, <<>>, [inst EXCEPT !.pc = "firewall", !.j = 1]) /\ UNCHANGED faults
       ELSE \E ok \in Oks :
              /\ Fault(ok)
              /\ IF ok
                 THEN InstallGo([host EXCEPT !.services = @ \cup {manifest.service.name}],
                                <<L("install_service", 0, manifest.service.name, TRUE)>>,
                                [inst EXCEPT !.pc = "firewall", !.j = 1,
                                             !.state.service_name = manifest.service.name])
                 ELSE InstallFail(host, <<L("install_service", 0, manifest.service.name, FALSE)>>)
    /\ UNCHANGED <<auth, conn, agent, call, manifest, unin, runs, pre, stdout>>

(* install_service_and_firewall, lines 721-726: netsh adds one more rule of *)
(* the name every time.                                                     *)
install_firewall ==
    /\ inst.pc = "firewall"
    /\ IF ~manifest.firewall.enabled \/ inst.j > Len(manifest.firewall.rules)
       THEN InstallGo(host, <<>>, [inst EXCEPT !.pc = "persist"]) /\ UNCHANGED faults
       ELSE LET rule == manifest.firewall.rules[inst.j] IN
            \E ok \in Oks :
              /\ Fault(ok)
              /\ IF ok
                 THEN InstallGo([host EXCEPT !.firewall[rule] = @ + 1],
                                <<L("add_rule", inst.j, rule, TRUE)>>,
                                [inst EXCEPT !.j = @ + 1,
                                             !.state.firewall_rules = Append(@, rule)])
                 ELSE InstallFail(host, <<L("add_rule", inst.j, rule, FALSE)>>)
    /\ UNCHANGED <<auth, conn, agent, call, manifest, unin, runs, pre, stdout>>

(* persist_state: std::fs::write creates or truncates the file and then     *)
(* writes; when it fails the file is untouched or left truncated.  The      *)
(* write fails when the directory of the file is not there.                 *)
persist_state(h, state) ==
    [h EXCEPT !.state_file = [exists |-> TRUE, parses |-> TRUE, state |-> state]]

Truncated(h) ==
    [h EXCEPT !.state_file = [exists |-> TRUE, parses |-> FALSE, state |-> EmptyState]]

FailedWrite(h) == {h, Truncated(h)}

install_persist ==
    /\ inst.pc = "persist"
    /\ \E ok \in (IF ProgramData \in host.dirs THEN Oks ELSE {FALSE}) :
         /\ faults' = IF ok \/ ProgramData \notin host.dirs THEN faults ELSE faults + 1
         /\ IF ok
            THEN LET h == persist_state(host, inst.state) IN
                 /\ host' = h
                 /\ inst' = [inst EXCEPT !.pc = "ok"]
                 /\ log' = Append(log, L("persist_state", 0, "", TRUE))
                 /\ Done("install", "ok", h)
            ELSE \E h \in FailedWrite(host) :
                   InstallFail(h, <<L("persist_state", 0, "", FALSE)>>)
    /\ UNCHANGED <<auth, conn, agent, call, manifest, unin, runs, pre, stdout>>

(* ------------------------------------------------------------- uninstall *)
(* Mutant: the error is logged and the run goes on to the directories.      *)
UninstallFailGoesOn(h, entries) ==
    /\ host' = h
    /\ unin' = [unin EXCEPT !.pc = "install_root", !.i = 0]
    /\ log' = log \o entries
    /\ UNCHANGED hist

(* `?` in uninstall: the run returns the error.                             *)
UninstallFail(h, entries) ==
    /\ host' = h
    /\ unin' = [unin EXCEPT !.pc = "err"]
    /\ log' = log \o entries
    /\ Done("uninstall", "err", h)

UninstallGo(h, entries, next) ==
    /\ host' = h
    /\ unin' = next
    /\ log' = log \o entries
    /\ UNCHANGED hist

uninstall_begin ==
    /\ NoCommandRunning
    /\ runs < MaxRuns
    /\ runs' = runs + 1
    /\ pre' = host
    /\ inst' = IdleRun
    /\ \E v \in EnvValues, admin \in BOOLEAN, loaded \in BOOLEAN :
         LET run == [IdleRun EXCEPT !.unprivileged = (v # "1" /\ ~admin)] IN
         IF ~Privileged(allow_non_admin_for_tests(v), admin)
         THEN /\ unin' = [run EXCEPT !.pc = "err"]
              /\ log' = <<L("privilege", 0, "uninstall", FALSE)>>
              /\ Done("uninstall", "err", host)
         ELSE IF ~loaded
         THEN /\ unin' = [run EXCEPT !.pc = "err"]
              /\ log' = <<L("load_manifest", 0, "uninstall", FALSE)>>
              /\ Done("uninstall", "err", host)
         ELSE /\ unin' = [run EXCEPT !.pc = "read_state"]
              /\ log' = <<L("load_manifest", 0, "uninstall", TRUE)>>
              /\ UNCHANGED hist
    /\ stdout' = NoOutput
    /\ UNCHANGED <<auth, conn, agent, call, manifest, host, faults>>

(* uninstall, lines 234-239: the state file is read and parsed if it exists *)
uninstall_read_state ==
    /\ unin.pc = "read_state"
    /\ IF ~host.state_file.exists
       THEN \E env \in Oks :           \* paths::default_state_file()?
              /\ Fault(env)
              /\ IF env
                 THEN UninstallGo(host, <<>>, [unin EXCEPT !.pc = "firewall", !.j = 1])
                 ELSE UninstallFail(host, <<L("read_state", 0, "ProgramData", FALSE)>>)
       ELSE \E ok \in Oks :
              /\ Fault(ok)
              /\ IF ~ok
                 THEN UninstallFail(host, <<L("read_state", 0, "read", FALSE)>>)
                 ELSE IF ~host.state_file.parses
                 THEN UninstallFail(host, <<L("read_state", 0, "parse", FALSE)>>)
                 ELSE UninstallGo(host, <<L("read_state", 0, "", TRUE)>>,
                                  [unin EXCEPT !.pc = "firewall", !.j = 1, !.loaded = TRUE,
                                               !.state = host.state_file.state])
    /\ UNCHANGED <<auth, conn, agent, call, manifest, inst, runs, pre, stdout>>

(* Mutant: after a failed removal the remaining recorded mutations are left *)
(* alone.                                                                   *)
BestEffortGivesUp(there, op, m, name, removedHost, next) ==
    \E ok \in (IF there THEN Oks ELSE {FALSE}) :
      /\ faults' = IF ok \/ ~there THEN faults ELSE faults + 1
      /\ UninstallGo(IF ok THEN removedHost ELSE host, <<L(op, m, name, ok)>>,
                     IF ok THEN next ELSE [unin EXCEPT !.pc = "plugins"])

(* Mutant: the result of a removal is propagated with `?`.                  *)
BestEffortPropagates(there, op, m, name, removedHost, next) ==
    \E ok \in (IF there THEN Oks ELSE {FALSE}) :
      /\ faults' = IF ok \/ ~there THEN faults ELSE faults + 1
      /\ IF ok
         THEN UninstallGo(removedHost, <<L(op, m, name, TRUE)>>, next)
         ELSE UninstallFail(host, <<L(op, m, name, FALSE)>>)

(* A removal whose result is discarded (`let _ = ...`): it succeeds only if *)
(* the resource is there, and the run goes on either way.                   *)
BestEffort(there, op, m, name, removedHost, next) ==
    \E ok \in (IF there THEN Oks ELSE {FALSE}) :
      /\ faults' = IF ok \/ ~there THEN faults ELSE faults + 1
      /\ UninstallGo(IF ok THEN removedHost ELSE host, <<L(op, m, name, ok)>>, next)

(* uninstall, lines 242-244: netsh deletes every rule of the name.          *)
uninstall_firewall ==
    /\ unin.pc = "firewall"
    /\ IF ~unin.loaded \/ unin.j > Len(unin.state.firewall_rules)
       THEN UninstallGo(host, <<>>, [unin EXCEPT !.pc = "autorun"]) /\ UNCHANGED faults
       ELSE LET rule == unin.state.firewall_rules[unin.j] IN
            BestEffort(host.firewall[rule] > 0, "delete_rule", unin.j, rule,
                       [host EXCEPT !.firewall[rule] = 0], [unin EXCEPT !.j = @ + 1])
    /\ UNCHANGED <<auth, conn, agent, call, manifest, inst, runs, pre, stdout>>

(* uninstall, lines 245-247 and 256-263: the recorded autorun value, or the *)
(* manifest's when no state was loaded; delete_hklm_run ignores a missing   *)
(* value.                                                                   *)
uninstall_autorun ==
    /\ unin.pc = "autorun"
    /\ LET next == [unin EXCEPT !.pc = "service"] IN
       IF unin.loaded /\ unin.state.autorun_name # None
       THEN BestEffort(TRUE, "delete_hklm_run", 0, unin.state.autorun_name,
                       [host EXCEPT !.run = @ \ {unin.state.autorun_name}], next)
       ELSE IF ~unin.loaded /\ manifest.autorun.enabled
       THEN BestEffort(TRUE, "delete_hklm_run", 0, AutorunName,
                       [host EXCEPT !.run = @ \ {AutorunName}], next)
       ELSE UninstallGo(host, <<>>, next) /\ UNCHANGED faults
    /\ UNCHANGED <<auth, conn, agent, call, manifest, inst, runs, pre, stdout>>

(* Mutant: the manifest's service is removed when no state was loaded.      *)
uninstall_service_of_manifest ==
    /\ unin.pc = "service"
    /\ LET next == [unin EXCEPT !.pc = "shortcuts", !.j = 1] IN
       IF manifest.service.enabled
       THEN BestEffort(manifest.service.name \in host.services, "uninstall_service", 0,
                       manifest.service.name,
                       [host EXCEPT !.services = @ \ {manifest.service.name}], next)
       ELSE UninstallGo(host, <<>>, next) /\ UNCHANGED faults
    /\ UNCHANGED <<auth, conn, agent, call, manifest, inst, runs, pre, stdout>>

(* uninstall, lines 248-250 *)
uninstall_service ==
    /\ unin.pc = "service"
    /\ LET next == [unin EXCEPT !.pc = "shortcuts", !.j = 1] IN
       IF unin.loaded /\ unin.state.service_name # None
       THEN BestEffort(unin.state.service_name \in host.services, "uninstall_service", 0,
                       unin.state.service_name,
                       [host EXCEPT !.services = @ \ {unin.state.service_name}], next)
       ELSE UninstallGo(host, <<>>, next) /\ UNCHANGED faults
    /\ UNCHANGED <<auth, conn, agent, call, manifest, inst, runs, pre, stdout>>

(* uninstall, lines 251-254 *)
uninstall_shortcuts ==
    /\ unin.pc = "shortcuts"
    /\ IF ~unin.loaded \/ unin.j > Len(unin.state.created_shortcuts)
       THEN UninstallGo(host, <<>>, [unin EXCEPT !.pc = "plugins"]) /\ UNCHANGED faults
       ELSE LET s == unin.state.created_shortcuts[unin.j] IN
            BestEffort(s.path \in host.links, "remove_file", unin.j, s.location,
                       [host EXCEPT !.links = @ \ {s.path}], [unin EXCEPT !.j = @ + 1])
    /\ UNCHANGED <<auth, conn, agent, call, manifest, inst, runs, pre, stdout>>

(* Mutant: the module loop of uninstall ends after its first module.        *)
AfterUninstallModuleEndsLoop(run, i) ==
    IF i = 0 /\ NextEnabled(manifest.modules, 1) <= Len(manifest.modules)
    THEN [run EXCEPT !.pc = "module", !.i = NextEnabled(manifest.modules, 1)]
    ELSE [run EXCEPT !.pc = "install_root", !.i = 0]

(* The loop head of uninstall's module loop.                                *)
AfterUninstallModule(run, i) ==
    LET n == NextEnabled(manifest.modules, i + 1) IN
    IF n <= Len(manifest.modules)
    THEN [run EXCEPT !.pc = "module", !.i = n]
    ELSE [run EXCEPT !.pc = "install_root", !.i = 0]

(* remove_plugins: every *.json of the default plugin directory; a missing  *)
(* directory is fine, a directory that cannot be listed is an error.        *)
remove_plugins(h) ==
    [h EXCEPT !.plugins = {f \in @ : f.dir # DefaultPluginDir}]

(* Mutant: a missing plugin directory is an error.                          *)
uninstall_remove_plugins_requires_dir ==
    /\ unin.pc = "plugins"
    /\ IF DefaultPluginDir \notin host.dirs
       THEN UninstallFail(host, <<L("remove_plugins", 0, "missing", FALSE)>>) /\ UNCHANGED faults
       ELSE \E ok \in Oks :
              /\ Fault(ok)
              /\ IF ok
                 THEN UninstallGo(remove_plugins(host), <<L("remove_plugins", 0, "", TRUE)>>,
                                  AfterUninstallModule(unin, 0))
                 ELSE UninstallFail(host, <<L("remove_plugins", 0, "", FALSE)>>)
    /\ UNCHANGED <<auth, conn, agent, call, manifest, inst, runs, pre, stdout>>

uninstall_remove_plugins ==
    /\ unin.pc = "plugins"
    /\ IF DefaultPluginDir \notin host.dirs
       THEN UninstallGo(host, <<L("remove_plugins", 0, "missing", TRUE)>>,
                        AfterUninstallModule(unin, 0)) /\ UNCHANGED faults
       ELSE \E ok \in Oks :
              /\ Fault(ok)
              /\ IF ok
                 THEN UninstallGo(remove_plugins(host), <<L("remove_plugins", 0, "", TRUE)>>,
                                  AfterUninstallModule(unin, 0))
                 ELSE UninstallFail(host, <<L("remove_plugins", 0, "", FALSE)>>)
    /\ UNCHANGED <<auth, conn, agent, call, manifest, inst, runs, pre, stdout>>

(* Mutant: the directory is always the one named by the module id.          *)
UninstallDirById(k, m) == ModuleId(k)

(* uninstall, lines 285-290: the directory of a file_copy module.           *)
UninstallDir(k, m) ==
    IF m.payload.some /\ m.payload.install_subdir # None
    THEN m.payload.install_subdir ELSE ModuleId(k)

RemoveModuleDir(h, dir) ==
    [h EXCEPT !.module_dirs = @ \ {dir}, !.text[dir] = <<>>]

(* Mutant: only the modules the loaded state records with an install root  *)
(* are uninstalled.                                                        *)
uninstall_module_recorded ==
    /\ unin.pc = "module"
    /\ LET k == unin.i
           m == manifest.modules[k]
           next == AfterUninstallModule(unin, k)
           recorded == \E x \in 1..Len(unin.state.modules) :
                          /\ unin.state.modules[x].id = ModuleId(k)
                          /\ unin.state.modules[x].install_root # None
       IN  IF ~(unin.loaded /\ recorded)
           THEN UninstallGo(host, <<>>, next) /\ UNCHANGED faults
           ELSE IF m.kind \in {"msi", "exe"}
           THEN IF ~m.uninstaller.some
                THEN UninstallGo(host, <<L("no_uninstaller", k, "", TRUE)>>, next) /\ UNCHANGED faults
                ELSE \E o \in Outcomes(m.uninstaller) :
                       LET ok == run_installer(m.uninstaller, o) IN
                       /\ Fault(ok)
                       /\ IF ok
                          THEN UninstallGo([host EXCEPT !.present = @ \ {k}],
                                           <<L("run_uninstaller", k, "", TRUE)>>, next)
                          ELSE UninstallFail(host, <<L("run_uninstaller", k, "", FALSE)>>)
           ELSE IF UninstallDir(k, m) \notin host.module_dirs
                THEN UninstallGo(host, <<>>, next) /\ UNCHANGED faults
                ELSE BestEffort(TRUE, "remove_module_dir", k, UninstallDir(k, m),
                                RemoveModuleDir(host, UninstallDir(k, m)), next)
    /\ UNCHANGED <<auth, conn, agent, call, manifest, inst, runs, pre, stdout>>

(* uninstall, lines 267-297: the uninstaller of an msi/exe module (its      *)
(* failure ends the run), the directory of a file_copy module.              *)
uninstall_module ==
    /\ unin.pc = "module"
    /\ LET k == unin.i
           m == manifest.modules[k]
           next == AfterUninstallModule(unin, k)
       IN  IF m.kind \in {"msi", "exe"}
           THEN IF ~m.uninstaller.some
                THEN UninstallGo(host, <<L("no_uninstaller", k, "", TRUE)>>, next) /\ UNCHANGED faults
                ELSE \E o \in Outcomes(m.uninstaller) :
                       LET ok == run_installer(m.uninstaller, o) IN
                       /\ Fault(ok)
                       /\ IF ok
                          THEN UninstallGo([host EXCEPT !.present = @ \ {k}],
                                           <<L("run_uninstaller", k, "", TRUE)>>, next)
                          ELSE UninstallFail(host, <<L("run_uninstaller", k, "", FALSE)>>)
           ELSE IF UninstallDir(k, m) \notin host.module_dirs
                THEN UninstallGo(host, <<>>, next) /\ UNCHANGED faults
                ELSE BestEffort(TRUE, "remove_module_dir", k, UninstallDir(k, m),
                                RemoveModuleDir(host, UninstallDir(k, m)), next)
    /\ UNCHANGED <<auth, conn, agent, call, manifest, inst, runs, pre, stdout>>

(* Mutant: the module directories go, the install root itself stays.        *)
RemoveInstallRootContents(h) ==
    [h EXCEPT !.module_dirs = {}, !.text = [d \in DOMAIN @ |-> <<>>]]

(* remove_dir_all(install_root) *)
RemoveInstallRoot(h) ==
    [h EXCEPT !.install_root = FALSE, !.module_dirs = {},
              !.text = [d \in DOMAIN @ |-> <<>>]]

(* uninstall, lines 299-302 *)
uninstall_install_root ==
    /\ unin.pc = "install_root"
    /\ LET next == [unin EXCEPT !.pc = "program_data"] IN
       IF ~host.install_root
       THEN UninstallGo(host, <<>>, next) /\ UNCHANGED faults
       ELSE BestEffort(TRUE, "remove_install_root", 0, "", RemoveInstallRoot(host), next)
    /\ UNCHANGED <<auth, conn, agent, call, manifest, inst, runs, pre, stdout>>

(* Mutant: the state file survives the removal of the program data.         *)
RemoveProgramDataKeepsState(h) ==
    [h EXCEPT !.dirs = @ \ {DefaultPluginDir, DefaultDataRoot},
              !.data_dirs = {d \in @ : d[1] # DefaultDataRoot},
              !.plugins = {f \in @ : f.dir # DefaultPluginDir}]

(* remove_dir_all(program_data_dir): the state file, the default plugin and *)
(* data directories and everything in them.                                 *)
RemoveProgramData(h) ==
    [h EXCEPT !.dirs = @ \ {ProgramData, DefaultPluginDir, DefaultDataRoot},
              !.data_dirs = {d \in @ : d[1] # DefaultDataRoot},
              !.plugins = {f \in @ : f.dir # DefaultPluginDir},
              !.state_file = NoStateFile]

(* uninstall, lines 304-310 *)
uninstall_program_data ==
    /\ unin.pc = "program_data"
    /\ IF ProgramData \notin host.dirs
       THEN /\ host' = host
            /\ unin' = [unin EXCEPT !.pc = "ok"]
            /\ log' = log
            /\ Done("uninstall", "ok", host)
            /\ UNCHANGED faults
       ELSE \E ok \in Oks :
              LET h == IF ok THEN RemoveProgramData(host) ELSE host IN
              /\ Fault(ok)
              /\ host' = h
              /\ unin' = [unin EXCEPT !.pc = "ok"]
              /\ log' = Append(log, L("remove_program_data", 0, "", ok))
              /\ Done("uninstall", "ok", h)
    /\ UNCHANGED <<auth, conn, agent, call, manifest, inst, runs, pre, stdout>>

(* ---------------------------------------------------------------- detect *)
(* detect: one line per enabled module, in order; the first detector error *)
(* ends the command.                                                        *)
RECURSIVE DetectLines(_, _, _)
DetectLines(h, ms, k) ==
    IF k > Len(ms) THEN [res |-> "ok", lines |-> <<>>]
    ELSE IF ~ms[k].enabled THEN DetectLines(h, ms, k + 1)
    ELSE LET d == detect_module_installed(h, k, ms[k]) IN
         IF d = "err" THEN [res |-> "err", lines |-> <<>>]
         ELSE LET rest == DetectLines(h, ms, k + 1) IN
              [res |-> rest.res, lines |-> <<[m |-> k, installed |-> d]>> \o rest.lines]

detect ==
    /\ NoCommandRunning
    /\ runs < MaxRuns
    /\ runs' = runs + 1
    /\ pre' = host
    /\ inst' = IdleRun
    /\ unin' = IdleRun
    /\ \E loaded \in BOOLEAN :
         /\ stdout' = IF loaded THEN DetectLines(host, manifest.modules, 1)
                      ELSE [res |-> "err", lines |-> <<>>]
         /\ log' = <<L("load_manifest", 0, "detect", loaded)>>
         /\ Done("detect", stdout'.res, host)
    /\ UNCHANGED <<auth, conn, agent, call, manifest, host, faults>>

(* ------------------------------------------------------------------ spec *)
HasRule(mf, rule) == \E k \in 1..Len(mf.modules) : mf.modules[k].detect.rule = rule
HasExt(mf) == \E k \in 1..Len(mf.modules) : mf.modules[k].detect.path = "ext"
Products(mf) == {k \in 1..Len(mf.modules) : mf.modules[k].kind \in {"msi", "exe"}}

(* The hosts a manifest is first run on: nothing of the product installed;  *)
(* what the detection rules and prerequisites read is the host's own.       *)
InitialHosts(mf) ==
    { FreshHost(present, ext, reg, dotnet, vc) :
        present \in {{}} \cup {{k} : k \in Products(mf)},
        ext \in (IF HasExt(mf) THEN BOOLEAN ELSE {FALSE}),
        reg \in (IF HasRule(mf, "registry_value") THEN RegValues ELSE {RegAbsent}),
        dotnet \in (IF mf.prerequisites.dotnet_fx48.enabled THEN DotnetValues ELSE {-1}),
        vc \in (IF mf.prerequisites.vcredist_2015_2022_x64.enabled THEN VcValues ELSE {-1}) }

(* No function is being called on its own.                                  *)
NoCall == [fn |-> "none", installer |-> NoInstaller, outcome |-> [spawned |-> FALSE, code |-> 0],
           rule |-> DetectNone, stored |-> RegAbsent, spawns |-> 0, ret |-> "none"]

Init ==
    /\ manifest \in Manifests
    /\ host \in InitialHosts(manifest)
    /\ inst = IdleRun
    /\ unin = IdleRun
    /\ log = <<>>
    /\ runs = 0
    /\ faults = 0
    /\ pre = host
    /\ hist = <<>>
    /\ stdout = NoOutput
    /\ auth = <<>> /\ conn = <<>> /\ agent = <<>>
    /\ call = NoCall

Next ==
    \/ install_begin
    \/ install_layout
    \/ install_prereq_dotnet
    \/ install_prereq_vc
    \/ install_detect
    \/ install_module
    \/ install_config
    \/ install_write_plugins
    \/ install_remove_shortcuts
    \/ install_shortcut_desktop
    \/ install_shortcut_start_menu
    \/ install_autorun
    \/ install_service
    \/ install_firewall
    \/ install_persist
    \/ uninstall_begin
    \/ uninstall_read_state
    \/ uninstall_firewall
    \/ uninstall_autorun
    \/ uninstall_service
    \/ uninstall_shortcuts
    \/ uninstall_remove_plugins
    \/ uninstall_module
    \/ uninstall_install_root
    \/ uninstall_program_data
    \/ detect

Spec == Init /\ [][Next]_vars

(* ------------------------------------------------- functions on their own *)
(* run_installer and detect_registry_rule called once on inputs of their    *)
(* own: the installer and what its process did, the rule and the value the  *)
(* registry holds.                                                          *)
InstallerInputs ==
    { [some |-> TRUE, path |-> p, success_exit_codes |-> codes]
        : p \in {"setup.exe", ""}, codes \in {<<>>, <<42>>, <<0, 42>>} }

RuleInputs ==
    { DetectReg(kind, expected, d, z)
        : kind \in {"dword", "sz"},
          expected \in {"dword_at_least", "dword_equals", "sz_equals"},
          d \in {0, 5}, z \in {"5", "x"} }

StoredInputs == {RegAbsent, RegDword(4), RegDword(5), RegDword(6), RegSz("5"), RegSz("x")}

InitCalls ==
    /\ manifest = Manifest(<<>>, NoPrereqs, NoShortcuts, NoAutorun, NoService, NoFirewall,
                           DefaultPost)
    /\ host = FreshHost({}, FALSE, RegAbsent, -1, -1)
    /\ inst = IdleRun
    /\ unin = IdleRun
    /\ log = <<>>
    /\ runs = 0
    /\ faults = 0
    /\ pre = host
    /\ hist = <<>>
    /\ stdout = NoOutput
    /\ auth = <<>> /\ conn = <<>> /\ agent = <<>>
    /\ \/ \E i \in InstallerInputs, o \in ProcessOutcomes :
            call = [NoCall EXCEPT !.fn = "run_installer", !.installer = i, !.outcome = o,
                                  !.ret = "pending"]
       \/ \E r \in RuleInputs, v \in StoredInputs :
            call = [NoCall EXCEPT !.fn = "detect_registry_rule", !.rule = r, !.stored = v,
                                  !.ret = "pending"]

(* run_installer: the path is resolved, the process is spawned once and its *)
(* exit code decides.                                                       *)
call_run_installer ==
    /\ call.fn = "run_installer" /\ call.ret = "pending"
    /\ call' = [call EXCEPT
                  !.spawns = IF resolve_path(call.installer.path) = "err" THEN 0 ELSE 1,
                  !.ret = IF run_installer(call.installer, call.outcome) THEN "ok" ELSE "err"]
    /\ UNCHANGED <<auth, conn, agent, manifest, host, inst, unin, log, runs, faults, pre, hist, stdout>>

call_detect_registry_rule ==
    /\ call.fn = "detect_registry_rule" /\ call.ret = "pending"
    /\ call' = [call EXCEPT !.ret = detect_registry_rule(call.rule, call.stored)]
    /\ UNCHANGED <<auth, conn, agent, manifest, host, inst, unin, log, runs, faults, pre, hist, stdout>>

NextCalls == call_run_installer \/ call_detect_registry_rule

SpecCalls == InitCalls /\ [][NextCalls]_vars

(* ------------------------------------------------------ two processes *)
(* One install process and one uninstall process on the same host; the      *)
(* second may start while the first is running, and the steps interleave.   *)
(* No external operation fails by itself (the fault budget is used up):     *)
(* what fails, fails because of what the other process did.                 *)
ConcurrentManifests ==
    { mf \in IntegrationFamily :
        /\ mf.service.enabled /\ ~mf.autorun.enabled
        /\ mf.shortcuts = [desktop |-> TRUE, start_menu |-> FALSE]
        /\ mf.firewall \in {NoFirewall, [enabled |-> TRUE, rules |-> <<"r1">>]} }

InitConcurrent ==
    /\ manifest \in ConcurrentManifests
    /\ host \in InitialHosts(manifest)
    /\ inst = IdleRun
    /\ unin = IdleRun
    /\ log = <<>>
    /\ runs = 0
    /\ faults = MaxFaults
    /\ pre = host
    /\ hist = <<>>
    /\ stdout = NoOutput
    /\ auth = <<>> /\ conn = <<>> /\ agent = <<>>
    /\ call = NoCall

install_begin_concurrent ==
    /\ inst.pc = "idle"
    /\ runs' = runs + 1
    /\ \E v \in EnvValues, admin \in BOOLEAN, loaded \in BOOLEAN :
         LET run == [IdleRun EXCEPT !.unprivileged = (v # "1" /\ ~admin)] IN
         IF ~Privileged(allow_non_admin_for_tests(v), admin)
         THEN /\ inst' = [run EXCEPT !.pc = "err"]
              /\ log' = Append(log, L("privilege", 0, "install", FALSE))
              /\ Done("install", "err", host)
         ELSE IF ~loaded
         THEN /\ inst' = [run EXCEPT !.pc = "err"]
              /\ log' = Append(log, L("load_manifest", 0, "install", FALSE))
              /\ Done("install", "err", host)
         ELSE /\ inst' = [run EXCEPT !.pc = "layout"]
              /\ log' = Append(log, L("load_manifest", 0, "install", TRUE))
              /\ UNCHANGED hist
    /\ UNCHANGED <<auth, conn, agent, call, manifest, host, unin, faults, pre, stdout>>

uninstall_begin_concurrent ==
    /\ unin.pc = "idle"
    /\ runs' = runs + 1
    /\ \E v \in EnvValues, admin \in BOOLEAN, loaded \in BOOLEAN :
         LET run == [IdleRun EXCEPT !.unprivileged = (v # "1" /\ ~admin)] IN
         IF ~Privileged(allow_non_admin_for_tests(v), admin)
         THEN /\ unin' = [run EXCEPT !.pc = "err"]
              /\ log' = Append(log, L("privilege", 0, "uninstall", FALSE))
              /\ Done("uninstall", "err", host)
         ELSE IF ~loaded
         THEN /\ unin' = [run EXCEPT !.pc = "err"]
              /\ log' = Append(log, L("load_manifest", 0, "uninstall", FALSE))
              /\ Done("uninstall", "err", host)
         ELSE /\ unin' = [run EXCEPT !.pc = "read_state"]
              /\ log' = Append(log, L("load_manifest", 0, "uninstall", TRUE))
              /\ UNCHANGED hist
    /\ UNCHANGED <<auth, conn, agent, call, manifest, host, inst, faults, pre, stdout>>

NextConcurrent ==
    \/ install_begin_concurrent
    \/ install_layout
    \/ install_prereq_dotnet
    \/ install_prereq_vc
    \/ install_detect
    \/ install_module
    \/ install_config
    \/ install_write_plugins
    \/ install_remove_shortcuts
    \/ install_shortcut_desktop
    \/ install_shortcut_start_menu
    \/ install_autorun
    \/ install_service
    \/ install_firewall
    \/ install_persist
    \/ uninstall_begin_concurrent
    \/ uninstall_read_state
    \/ uninstall_firewall
    \/ uninstall_autorun
    \/ uninstall_service
    \/ uninstall_shortcuts
    \/ uninstall_remove_plugins
    \/ uninstall_module
    \/ uninstall_install_root
    \/ uninstall_program_data

SpecConcurrent == InitConcurrent /\ [][NextConcurrent]_vars

(* ---------------------------------------------------------------- claims *)
Last(s) == s[Len(s)]

ModuleStepOps ==
    {"detect", "missing_installer", "missing_payload", "resolve_path", "run_installer",
     "copy_recursively", "apply_module_config"}
IntegrationOps ==
    {"remove_shortcuts_from_desktop", "create_shortcut", "set_hklm_run", "install_service",
     "add_rule"}

FailedModuleStep(e) == e.op \in ModuleStepOps /\ e.m > 0 /\ ~e.ok

(* C1: install is fail-fast.  Once a step of an enabled module has failed,  *)
(* that failure is the last thing the run did: the run has returned an      *)
(* error, no later module was detected or installed, no plugin, shortcut,   *)
(* autorun, service or firewall step ran and the state file is as it was    *)
(* before the run.                                                          *)
C1_InstallFailFast ==
    inst.pc # "idle" =>
      \A n \in 1..Len(log) :
        FailedModuleStep(log[n]) =>
          /\ n = Len(log)
          /\ inst.pc = "err"
          /\ hist # <<>> /\ Last(hist).cmd = "install" /\ Last(hist).res = "err"
          /\ \A j \in 1..Len(log) : log[j].op \in ModuleStepOps => log[j].m <= log[n].m
          /\ \A j \in 1..Len(log) :
                log[j].op \notin IntegrationOps \cup {"write_plugins", "persist_state"}
          /\ host.state_file = pre.state_file

(* A run that failed in the first of two enabled modules.                   *)
C1_Witness ==
    /\ inst.pc = "err"
    /\ log # <<>> /\ FailedModuleStep(Last(log)) /\ Last(log).m = 1
    /\ Len(manifest.modules) = 2 /\ manifest.modules[2].enabled

Ops(op) == {n \in 1..Len(log) : log[n].op = op}

(* C2: the state file is written at most once per install run, as the last  *)
(* call of a run whose earlier calls all succeeded, and a run that fails    *)
(* leaves the state file exactly as it was before the run.                  *)
C2_StateFileOnlyOnSuccess ==
    inst.pc # "idle" =>
      /\ Cardinality(Ops("persist_state")) <= 1
      /\ \A n \in Ops("persist_state") :
            n = Len(log) /\ \A j \in 1..(n - 1) : log[j].ok
      /\ (inst.pc # "ok" => host.state_file = pre.state_file)

DirectoryRemovals == {"remove_module_dir", "remove_install_root", "remove_program_data"}
RemovalsSucceeded == \A n \in 1..Len(log) : log[n].op \in DirectoryRemovals => log[n].ok

(* The last two commands were cmd1 and cmd2 and both succeeded.             *)
LastTwo(cmd1, cmd2) ==
    /\ Len(hist) >= 2
    /\ hist[Len(hist) - 1].cmd = cmd1 /\ hist[Len(hist) - 1].res = "ok"
    /\ Last(hist).cmd = cmd2 /\ Last(hist).res = "ok"

(* C3: after a successful install every file_copy module the run copied has *)
(* its payload under <install_root>/<install_subdir>, the artifact named by *)
(* its plugin id exists and the state file exists; after an uninstall whose *)
(* directory removals succeed neither the install root nor the program-data *)
(* root (state file, plugins, data) exists.                                 *)
C3_InstallUninstallRoundTrip ==
    /\ inst.pc = "ok" =>
          \A n \in Ops("copy_recursively") :
            LET k == log[n].m
                m == manifest.modules[k]
            IN  /\ host.install_root
                /\ Destination(k, m) \in host.module_dirs
                /\ host.text[Destination(k, m)] # <<>>
                /\ m.plugin.some =>
                      \E f \in host.plugins : f.dir = PluginDir /\ f.id = m.plugin.id
                /\ host.state_file.exists /\ host.state_file.parses
    /\ (unin.pc = "ok" /\ LastTwo("install", "uninstall") /\ RemovalsSucceeded) =>
          /\ ~host.install_root /\ host.module_dirs = {}
          /\ ProgramData \notin host.dirs
          /\ ~host.state_file.exists
          /\ \A f \in host.plugins : f.dir # DefaultPluginDir
          /\ \A d \in host.data_dirs : d[1] # DefaultDataRoot

(* An uninstall that removed the tree and state file an install had left.   *)
C3_Witness ==
    /\ unin.pc = "ok" /\ LastTwo("install", "uninstall") /\ RemovalsSucceeded
    /\ pre.install_root /\ pre.module_dirs # {} /\ pre.plugins # {}
    /\ pre.state_file.exists
    /\ ~host.install_root /\ ProgramData \notin host.dirs

(* What install leaves on the host, the firewall as the set of rule names.  *)
SystemState(h) ==
    [install_root |-> h.install_root, module_dirs |-> h.module_dirs, text |-> h.text,
     plugins |-> h.plugins, links |-> h.links, run |-> h.run, services |-> h.services,
     firewall |-> {r \in RuleNames : h.firewall[r] > 0}]

(* C4: a second successful install right after a successful install leaves  *)
(* the system state of the first, and installs nothing for a module whose   *)
(* detection reports true.                                                  *)
C4_ReinstallIdempotent ==
    /\ (inst.pc = "ok" /\ LastTwo("install", "install")) =>
          SystemState(host) = SystemState(pre)
    /\ inst.pc # "idle" =>
          \A n \in Ops("detect") :
            log[n].name = "true" =>
              \A j \in 1..Len(log) :
                log[j].op \in ModuleStepOps \ {"detect"} => log[j].m # log[n].m

PrereqNames == {"dotnet_fx48", "vcredist_2015_2022_x64"}
EnabledPrereqs == {p \in PrereqNames : manifest.prerequisites[p].enabled}
IsPrereqEntry(e) == e.m = 0 /\ e.op \in {"prereq_status", "missing_installer", "run_installer"}
IsModuleEntry(e) == e.m > 0 /\ e.op \in ModuleStepOps
(* detection, then installation, then configuration *)
Rank(op) == IF op = "detect" THEN 1 ELSE IF op = "apply_module_config" THEN 3 ELSE 2
Before(n, P(_)) == \E j \in 1..(n - 1) : P(log[j])

(* C5: in an install run every enabled prerequisite is processed before the *)
(* first module step; module steps follow the manifest order, skipping no   *)
(* enabled module; within a module detection precedes installation, which   *)
(* precedes configuration; the integration steps start only after every     *)
(* enabled module has been skipped or configured.                           *)
C5_InstallOrdering ==
    inst.pc # "idle" =>
      \A n \in 1..Len(log) :
        LET e == log[n] IN
        /\ IsModuleEntry(e) =>
              /\ manifest.modules[e.m].enabled
              /\ \A p \in EnabledPrereqs :
                    Before(n, LAMBDA x : x.op = "prereq_status" /\ x.name = p /\ x.ok)
              /\ \A j \in 1..Len(log) : IsPrereqEntry(log[j]) => j < n /\ log[j].ok
              /\ \A j \in 1..(n - 1) :
                    IsModuleEntry(log[j]) =>
                      \/ log[j].m < e.m
                      \/ log[j].m = e.m /\ Rank(log[j].op) < Rank(e.op)
              /\ \A k \in EnabledModules(manifest.modules) :
                    k < e.m => Before(n, LAMBDA x : x.op = "detect" /\ x.m = k)
              /\ Rank(e.op) = 2 =>
                    Before(n, LAMBDA x : x.op = "detect" /\ x.m = e.m /\ x.name = "false")
              /\ Rank(e.op) = 3 =>
                    Before(n, LAMBDA x : x.op \in {"run_installer", "copy_recursively"}
                                          /\ x.m = e.m /\ x.ok)
        /\ e.op \in IntegrationOps =>
              /\ \A k \in EnabledModules(manifest.modules) :
                    \/ Before(n, LAMBDA x : x.op = "detect" /\ x.m = k /\ x.name = "true")
                    \/ Before(n, LAMBDA x : x.op = "apply_module_config" /\ x.m = k /\ x.ok)
              /\ \A j \in n..Len(log) : ~IsModuleEntry(log[j]) /\ ~IsPrereqEntry(log[j])

(* A prerequisite installer, a copied and a detected module, a shortcut.    *)
C5_Witness ==
    /\ inst.pc = "ok"
    /\ \E n \in Ops("run_installer") : log[n].m = 0
    /\ \E n \in Ops("apply_module_config") : log[n].m = 1
    /\ \E n \in Ops("detect") : log[n].m = 2
    /\ Ops("create_shortcut") # {}

(* C6: a module whose detection returns true gets no installer, copy or     *)
(* configuration step, one state entry with installed = true and no         *)
(* install_root, and the run goes to the next enabled module (or leaves the *)
(* loop).                                                                   *)
C6_SkipOnDetection ==
    inst.pc # "idle" =>
      \A n \in Ops("detect") :
        log[n].name = "true" =>
          LET k == log[n].m
              next == NextEnabled(manifest.modules, k + 1)
              entries == {i \in 1..Len(inst.state.modules) :
                            inst.state.modules[i].id = ModuleId(k)}
          IN  /\ \A j \in 1..Len(log) :
                    log[j].op \in ModuleStepOps \ {"detect"} => log[j].m # k
              /\ Cardinality(entries) = 1
              /\ \A i \in entries :
                    /\ inst.state.modules[i].installed
                    /\ inst.state.modules[i].install_root = None
              /\ IF n < Len(log)
                 THEN IF next <= Len(manifest.modules)
                      THEN log[n + 1].op = "detect" /\ log[n + 1].m = next
                      ELSE log[n + 1].op = "write_plugins"
                 ELSE IF next <= Len(manifest.modules)
                      THEN inst.pc = "detect" /\ inst.i = next
                      ELSE inst.pc = "plugins"

(* Module 1 detected and skipped, module 2 installed after it.              *)
C6_Witness ==
    /\ inst.pc = "ok"
    /\ \E n \in Ops("detect") : log[n].m = 1 /\ log[n].name = "true"
    /\ \E n \in Ops("copy_recursively") : log[n].m = 2
    /\ Len(inst.state.modules) = 2

DisabledModules == {k \in 1..Len(manifest.modules) : ~manifest.modules[k].enabled}
PerModuleOps ==
    ModuleStepOps \cup {"remove_shortcuts_from_desktop", "no_uninstaller",
                        "run_uninstaller", "remove_module_dir"}

(* C7: for a disabled module no command makes a per-module call (detection, *)
(* installer, copy, configuration, desktop shortcut removal, uninstaller,   *)
(* directory removal); it has no state entry and no plugin artifact, its    *)
(* product on the host stays as it was, and detect prints no line for it.   *)
C7_DisabledModuleOmitted ==
    \A k \in DisabledModules :
      /\ \A n \in 1..Len(log) : log[n].op \in PerModuleOps => log[n].m # k
      /\ \A i \in 1..Len(inst.state.modules) : inst.state.modules[i].id # ModuleId(k)
      /\ \A i \in 1..Len(host.state_file.state.modules) :
            host.state_file.state.modules[i].id # ModuleId(k)
      /\ \A f \in host.plugins : f.module_id # ModuleId(k)
      /\ (k \in host.present) = (k \in pre.present)
      /\ \A i \in 1..Len(stdout.lines) : stdout.lines[i].m # k

(* Install and uninstall went past a disabled msi module whose product is   *)
(* on the host and whose neighbour was installed and removed.               *)
C7_Witness ==
    /\ unin.pc = "ok" /\ LastTwo("install", "uninstall")
    /\ 1 \in DisabledModules /\ 1 \in host.present
    /\ Ops("remove_module_dir") # {}

RollbackOps == {"delete_rule", "delete_hklm_run", "uninstall_service", "remove_file"}
OpName(e) == <<e.op, e.name>>
OpNamesOf(entries) == [n \in 1..Len(entries) |-> entries[n].name]
OpNames(entries) == [n \in 1..Len(entries) |-> OpName(entries[n])]

(* The removals uninstall attempts for a loaded state, in the code's order. *)
RecordedRemovals(state) ==
    [j \in 1..Len(state.firewall_rules) |-> <<"delete_rule", state.firewall_rules[j]>>]
      \o (IF state.autorun_name # None THEN <<<<"delete_hklm_run", state.autorun_name>>>> ELSE <<>>)
      \o (IF state.service_name # None THEN <<<<"uninstall_service", state.service_name>>>> ELSE <<>>)
      \o [j \in 1..Len(state.created_shortcuts) |->
            <<"remove_file", state.created_shortcuts[j].location>>]

PastRollback == {"plugins", "module", "install_root", "program_data", "ok"}
NativeModules == {k \in EnabledModules(manifest.modules) : manifest.modules[k].kind \in {"msi", "exe"}}

(* C8: with a state file loaded, no failed removal of a recorded firewall   *)
(* rule, autorun entry, service or shortcut ends the run; every recorded    *)
(* mutation gets its removal attempt whatever the earlier ones returned,    *)
(* and the plugin cleanup, the module loop and the directory removals       *)
(* follow.                                                                  *)
C8_RollbackFailuresSwallowed ==
    unin.loaded =>
      /\ unin.pc = "err" => Last(log).op \notin RollbackOps
      /\ (unin.pc \in PastRollback \/ (unin.pc = "err" /\ Last(log).op # "read_state")) =>
            OpNames(SelectSeq(log, LAMBDA e : e.op \in RollbackOps)) = RecordedRemovals(unin.state)
      /\ unin.pc = "ok" =>
            /\ Ops("remove_plugins") # {}
            /\ \A k \in NativeModules :
                  \E n \in Ops("no_uninstaller") \cup Ops("run_uninstaller") : log[n].m = k
            /\ pre.install_root => Ops("remove_install_root") # {}
            /\ ProgramData \in pre.dirs => Ops("remove_program_data") # {}

(* A recorded firewall rule could not be deleted, a later recorded mutation *)
(* was removed and the uninstall still finished with the directories.       *)
C8_Witness ==
    /\ unin.loaded /\ unin.pc = "ok"
    /\ \E n \in Ops("delete_rule") :
          /\ ~log[n].ok
          /\ \E j \in (n + 1)..Len(log) : log[j].op \in RollbackOps /\ log[j].ok
    /\ \E n \in Ops("remove_install_root") : log[n].ok

PassedStartup == log # <<>> /\ log[1].op = "load_manifest" /\ log[1].ok

AbortingOps == {"read_state", "remove_plugins", "run_uninstaller"}

StateShortcut(j) == unin.state.created_shortcuts[j].path

UninstallModuleOps == {"no_uninstaller", "run_uninstaller", "remove_module_dir"}

(* C11: an enabled msi/exe module without an uninstaller is skipped during  *)
(* uninstall: no uninstaller runs for it, its product stays, the skip never *)
(* ends the run, the loop goes on with the next enabled module, and a       *)
(* finished run has attempted the removal of the install root and of the    *)
(* program-data root.                                                       *)
C11_NoUninstallerSkipped ==
    /\ \A n \in Ops("run_uninstaller") : manifest.modules[log[n].m].uninstaller.some
    /\ \A n \in Ops("no_uninstaller") :
          LET k == log[n].m
              m == manifest.modules[k]
              next == NextEnabled(manifest.modules, k + 1)
          IN  /\ m.enabled /\ m.kind \in {"msi", "exe"} /\ ~m.uninstaller.some
              /\ log[n].ok
              /\ (k \in host.present) = (k \in pre.present)
              /\ \A j \in 1..Len(log) :
                    log[j].op \in UninstallModuleOps =>
                      (j < n /\ log[j].m < k) \/ j = n \/ (j > n /\ log[j].m >= next)
              /\ unin.pc = "module" => unin.i >= next
              /\ unin.pc \in {"install_root", "program_data", "ok"} =>
                    \A k2 \in EnabledModules(manifest.modules) :
                      k2 > k =>
                        \/ \E j \in (n + 1)..Len(log) :
                              log[j].op \in UninstallModuleOps /\ log[j].m = k2
                        \/ /\ manifest.modules[k2].kind = "file_copy"
                           /\ UninstallDir(k2, manifest.modules[k2]) \notin host.module_dirs
              /\ unin.pc = "err" => n < Len(log) /\ Last(log).op = "run_uninstaller"
              /\ unin.pc = "ok" =>
                    /\ pre.install_root => \E j \in Ops("remove_install_root") : j > n
                    /\ ProgramData \in pre.dirs => \E j \in Ops("remove_program_data") : j > n
                    /\ RemovalsSucceeded => ~host.install_root /\ ProgramData \notin host.dirs

(* Module 1 had no uninstaller; the directory of module 2, the install root *)
(* and the program-data root were removed after it.                         *)
C11_Witness ==
    /\ unin.pc = "ok" /\ RemovalsSucceeded
    /\ \E n \in Ops("no_uninstaller") : log[n].m = 1
    /\ \E n \in Ops("remove_module_dir") : log[n].m = 2
    /\ pre.install_root /\ ~host.install_root
    /\ ProgramData \in pre.dirs /\ ProgramData \notin host.dirs
    /\ 1 \in host.present

DeclaredAutorunName ==
    IF manifest.autorun.name = "" THEN "XiaoHaiAssistant" ELSE manifest.autorun.name
PastAutorun == {"service", "shortcuts"} \cup PastRollback

(* C12: install writes the autorun entry under the manifest's autorun name, *)
(* XiaoHaiAssistant when that is empty; an uninstall that found no state    *)
(* file attempts the removal of exactly that entry when the manifest        *)
(* enables autorun (and of nothing when it does not), and the run does not  *)
(* end at that removal, failed or not.                                      *)
C12_FallbackAutorunRemoval ==
    /\ \A n \in Ops("set_hklm_run") : log[n].name = DeclaredAutorunName
    /\ (unin.pc # "idle" /\ ~pre.state_file.exists) =>
          /\ ~unin.loaded
          /\ unin.pc \in PastAutorun =>
                OpNames(SelectSeq(log, LAMBDA e : e.op \in RollbackOps)) =
                  IF manifest.autorun.enabled
                  THEN << <<"delete_hklm_run", DeclaredAutorunName>> >>
                  ELSE << >>
          /\ unin.pc = "err" => Last(log).op # "delete_hklm_run"
          /\ \A n \in Ops("delete_hklm_run") :
                log[n].ok /\ unin.pc \in PastAutorun => log[n].name \notin host.run

(* An install that set the default-named autorun entry failed before it     *)
(* wrote a state file; the uninstall after it removed the entry.            *)
C12_Witness ==
    /\ unin.pc = "ok" /\ ~pre.state_file.exists
    /\ manifest.autorun.enabled /\ manifest.autorun.name = ""
    /\ "XiaoHaiAssistant" \in pre.run /\ "XiaoHaiAssistant" \notin host.run
    /\ \E n \in Ops("delete_hklm_run") : log[n].ok

Reverse(s) == [n \in 1..Len(s) |-> s[Len(s) + 1 - n]]

(* The removals of the recorded mutations in the order install made the     *)
(* mutations: shortcuts as created, autorun, service, firewall rules.       *)
RemovalsInInstallOrder(state) ==
    [j \in 1..Len(state.created_shortcuts) |->
       <<"remove_file", state.created_shortcuts[j].location>>]
      \o (IF state.autorun_name # None THEN <<<<"delete_hklm_run", state.autorun_name>>>> ELSE <<>>)
      \o (IF state.service_name # None THEN <<<<"uninstall_service", state.service_name>>>> ELSE <<>>)
      \o [j \in 1..Len(state.firewall_rules) |-> <<"delete_rule", state.firewall_rules[j]>>]

(* C13: with a state file loaded, the removal attempts of the recorded      *)
(* mutations are made in the reverse of the order in which install made the *)
(* mutations.                                                               *)
C13_RollbackInReverseOrder ==
    (unin.loaded /\ unin.pc \in PastRollback) =>
      OpNames(SelectSeq(log, LAMBDA e : e.op \in RollbackOps)) =
        Reverse(RemovalsInInstallOrder(unin.state))

(* The command before the current (or just finished) uninstall was an       *)
(* install that succeeded.                                                  *)
UninstallAfterInstall ==
    LET n == IF unin.pc \in {"ok", "err"} THEN Len(hist) - 1 ELSE Len(hist) IN
    /\ unin.pc # "idle"
    /\ n >= 1 /\ hist[n].cmd = "install" /\ hist[n].res = "ok"

(* The plugin artifacts an install of the manifest writes.                  *)
WrittenPlugins == WritePluginsFrom({}, manifest.modules, 1)

(* C14: whatever post_config.plugin_dir is, once an uninstall that follows  *)
(* a successful install has done its plugin cleanup no plugin artifact that *)
(* install wrote remains; a missing plugin directory is no error.           *)
C14_PluginArtifactsRemoved ==
    /\ \A n \in Ops("remove_plugins") : log[n].name = "missing" => log[n].ok
    /\ (UninstallAfterInstall /\ \E n \in Ops("remove_plugins") : log[n].ok) =>
          host.plugins \cap WrittenPlugins = {}

(* C15: whatever post_config.data_root is, after a successful install and a *)
(* successful uninstall whose directory removals succeed the data root in   *)
(* which install created the module data directories no longer exists.      *)
C15_DataRootRemoved ==
    (unin.pc = "ok" /\ LastTwo("install", "uninstall") /\ RemovalsSucceeded) =>
      /\ DataRoot \notin host.dirs
      /\ \A d \in host.data_dirs : d[1] # DataRoot

Returned(fn) == call.fn = fn /\ call.ret \notin {"none", "pending"}

(* C16: run_installer succeeds exactly when the process was spawned and its *)
(* exit code is 0, 3010 or 1641 for an empty success_exit_codes list, one   *)
(* of the listed codes otherwise (with [42]: 42 and nothing else, not 0);   *)
(* anything else is an error, and the process is spawned at most once.      *)
C16_ExitCodePolicy ==
    Returned("run_installer") =>
      LET codes == call.installer.success_exit_codes
          o == call.outcome
          listed == \E n \in 1..Len(codes) : codes[n] = o.code
      IN  /\ call.ret \in {"ok", "err"}
          /\ (call.ret = "ok") =
                /\ call.installer.path # ""
                /\ o.spawned
                /\ IF codes = <<>> THEN o.code \in {0, 3010, 1641} ELSE listed
          /\ (codes = <<42>> /\ call.ret = "ok") => o.code = 42
          /\ call.spawns <= 1

(* success_exit_codes = [42] and the process exited with 0: an error.       *)
C16_Witness ==
    /\ Returned("run_installer")
    /\ call.installer.success_exit_codes = <<42>> /\ call.installer.path # ""
    /\ call.outcome.spawned /\ call.outcome.code = 0
    /\ call.ret = "err" /\ call.spawns = 1

(* C17: a command started by a process that is not elevated, without the    *)
(* bypass variable set to 1, ends with the privilege error as its only      *)
(* call and leaves the host (directories, files, products, registry,        *)
(* services, firewall, shortcuts, state file) as it was.                    *)
C17_PrivilegeCheckFirst ==
    /\ (inst.pc # "idle" /\ inst.unprivileged) =>
          /\ inst.pc = "err"
          /\ log = <<L("privilege", 0, "install", FALSE)>>
          /\ host = pre
          /\ Last(hist).cmd = "install" /\ Last(hist).res = "err"
    /\ (unin.pc # "idle" /\ unin.unprivileged) =>
          /\ unin.pc = "err"
          /\ log = <<L("privilege", 0, "uninstall", FALSE)>>
          /\ host = pre
          /\ Last(hist).cmd = "uninstall" /\ Last(hist).res = "err"

(* An unprivileged uninstall on a host that holds an installation, and an   *)
(* unprivileged install.                                                    *)
C17_Witness ==
    \/ /\ unin.unprivileged /\ unin.pc = "err"
       /\ host.install_root /\ host.state_file.exists /\ host.plugins # {}
    \/ /\ inst.unprivileged /\ inst.pc = "err" /\ runs = MaxRuns /\ host.install_root

AfterDetect ==
    /\ inst.pc = "idle" /\ unin.pc = "idle"
    /\ log # <<>> /\ log[1].name = "detect"

(* What the rule of module k is on host h: satisfied, not satisfied, error. *)
RuleOutcome(h, k) ==
    LET m == manifest.modules[k] IN
    IF m.detect.rule = "none" THEN "false"
    ELSE IF m.detect.rule = "file_exists"
    THEN IF m.detect.path = "" THEN "err"
         ELSE IF PathExists(h, k, m, m.detect.path) THEN "true" ELSE "false"
    ELSE detect_registry_rule(m.detect, h.reg)

(* C18: detect prints one line per enabled module in manifest order, true   *)
(* exactly when the module's rule is satisfied, up to the first module      *)
(* whose detector fails, where the command ends in error; the host is left  *)
(* as it was.                                                               *)
C18_DetectReportsAndKeeps ==
    AfterDetect =>
      LET ks == EnabledSeq(manifest.modules)
          errs == {n \in 1..Len(ks) : RuleOutcome(host, ks[n]) = "err"}
          stop == IF errs = {} THEN Len(ks) + 1
                  ELSE CHOOSE n \in errs : \A x \in errs : n <= x
      IN  /\ host = pre
          /\ ~log[1].ok => stdout = [res |-> "err", lines |-> <<>>]
          /\ log[1].ok =>
                /\ stdout.res = IF errs = {} THEN "ok" ELSE "err"
                /\ stdout.lines =
                      [n \in 1..(stop - 1) |->
                         [m |-> ks[n], installed |-> RuleOutcome(host, ks[n])]]

(* Two enabled modules, one reported true and the other false.              *)
C18_Witness ==
    /\ AfterDetect /\ stdout.res = "ok" /\ Len(stdout.lines) = 2
    /\ stdout.lines[1].installed = "true" /\ stdout.lines[2].installed = "false"
    /\ manifest.modules[1].detect.rule = "file_exists"
    /\ manifest.modules[2].detect.rule = "file_exists"

Bool(b) == IF b THEN "true" ELSE "false"

(* C19: with a stored value of the declared kind, dword_at_least(t) is true *)
(* exactly when the stored dword v >= t, dword_equals(e) exactly when       *)
(* v = e, and sz_equals(s) exactly when the stored string equals s.         *)
C19_RegistryComparison ==
    (Returned("detect_registry_rule") /\ call.stored.type = call.rule.kind) =>
      LET r == call.rule
          v == call.stored
      IN  /\ (r.kind = "dword" /\ r.expected = "dword_at_least") =>
                call.ret = Bool(v.dword >= r.dword)
          /\ (r.kind = "dword" /\ r.expected = "dword_equals") =>
                call.ret = Bool(v.dword = r.dword)
          /\ (r.kind = "sz" /\ r.expected = "sz_equals") =>
                call.ret = Bool(v.sz = r.sz)

(* dword_at_least(5) on a stored 5 is true.                                 *)
C19_Witness ==
    /\ Returned("detect_registry_rule")
    /\ call.rule.kind = "dword" /\ call.rule.expected = "dword_at_least"
    /\ call.rule.dword = 5 /\ call.stored = RegDword(5) /\ call.ret = "true"

DwordExpectation(rule) == rule.expected \in {"dword_at_least", "dword_equals"}

(* C20 as stated: a dword expectation against a stored string, and a string *)
(* expectation against a stored dword, give false whatever the declared     *)
(* kind.                                                                    *)
C20_MismatchIsFalse ==
    (/\ Returned("detect_registry_rule")
     /\ \/ DwordExpectation(call.rule) /\ call.stored.type = "sz"
        \/ ~DwordExpectation(call.rule) /\ call.stored.type = "dword") =>
      call.ret = "false"

(* C20: a stored value whose type is not the declared kind makes detection  *)
(* an error; an expectation that is not of the declared kind, on a stored   *)
(* value of the declared kind, gives false.                                 *)
C20_MismatchByKind ==
    (Returned("detect_registry_rule") /\ call.stored.type # "absent") =>
      LET declared == IF DwordExpectation(call.rule) THEN "dword" ELSE "sz"
      IN  /\ call.stored.type # call.rule.kind => call.ret = "err"
          /\ (call.stored.type = call.rule.kind /\ declared # call.rule.kind) =>
                call.ret = "false"

(* A dword rule with a dword expectation on a stored string is an error.    *)
C20_Witness ==
    /\ Returned("detect_registry_rule")
    /\ call.rule.kind = "dword" /\ call.rule.expected = "dword_at_least"
    /\ call.stored = RegSz("5") /\ call.ret = "err"

InstallRunning == inst.pc # "idle" /\ log # <<>> /\ log[1].name = "install"

(* The registry rule of module k cannot be evaluated on host h: the key or  *)
(* value is absent or the value is not of the declared kind.                *)
Unreadable(h, k) ==
    /\ manifest.modules[k].detect.rule = "registry_value"
    /\ h.reg.type # manifest.modules[k].detect.kind

InstallingOps == {"run_installer", "copy_recursively", "apply_module_config"}

(* C21: in an install run, the detection of an enabled module whose         *)
(* registry value is absent or not of the declared kind is an error and     *)
(* never "not installed": it is the last call of the run, the run returns   *)
(* the error, and neither that module nor a later one is installed or gets  *)
(* a state entry.                                                           *)
C21_UnreadableRegistryAborts ==
    InstallRunning =>
      \A n \in 1..Len(log) :
        (log[n].op = "detect" /\ Unreadable(host, log[n].m)) =>
          /\ log[n] = L("detect", log[n].m, "err", FALSE)
          /\ n = Len(log)
          /\ inst.pc = "err"
          /\ Last(hist).cmd = "install" /\ Last(hist).res = "err"
          /\ Last(hist).host = host
          /\ \A x \in 1..Len(log) :
               log[x].op \in InstallingOps => log[x].m < log[n].m
          /\ \A x \in 1..Len(inst.state.modules) :
               inst.state.modules[x].id \notin
                 {ModuleId(j) : j \in log[n].m..Len(manifest.modules)}
          /\ host.state_file = pre.state_file

(* A string stored where a dword rule reads, a second module behind it.     *)
C21_Witness ==
    /\ InstallRunning /\ inst.pc = "err"
    /\ Last(log) = L("detect", 1, "err", FALSE)
    /\ Unreadable(host, 1) /\ host.reg.type = "sz"
    /\ Len(manifest.modules) = 2 /\ manifest.modules[2].enabled
    /\ manifest.modules[2].kind = "file_copy" /\ manifest.modules[2].payload.some
    /\ host.module_dirs = {}

PrereqItem(p) ==
    IF p = "dotnet_fx48" THEN manifest.prerequisites.dotnet_fx48
    ELSE manifest.prerequisites.vcredist_2015_2022_x64

(* What detection of prerequisite p reports on the host the run started on. *)
PrereqReported(p) ==
    IF p = "dotnet_fx48"
    THEN IF pre.dotnet_release < 0 THEN "err"
         ELSE IF pre.dotnet_release >= 528040 THEN "Installed" ELSE "Missing"
    ELSE IF pre.vc_installed < 0 THEN "err"
         ELSE IF pre.vc_installed = 1 THEN "Installed" ELSE "Missing"

PrereqEntries(p) == {n \in 1..Len(log) : log[n].m = 0 /\ log[n].name = p}
ModuleEntries == {n \in 1..Len(log) : log[n].m > 0}

(* C22: in an install run a disabled prerequisite has no call at all; an    *)
(* enabled one reported installed has its status check only; one reported   *)
(* missing has its installer run right after the check and before every     *)
(* module call, or, with no installer declared, ends the run in error; a    *)
(* failed prerequisite installer ends the run with no module call made.     *)
C22_PrerequisiteHandling ==
    InstallRunning =>
      \A p \in {"dotnet_fx48", "vcredist_2015_2022_x64"} :
        LET item == PrereqItem(p)
            es == PrereqEntries(p)
        IN  /\ ~item.enabled => es = {}
            /\ (item.enabled /\ ModuleEntries # {}) =>
                 \E n \in es : log[n].op = "prereq_status" /\ log[n].ok
            /\ \A n \in es :
                 log[n] = L("prereq_status", 0, p, TRUE) =>
                   /\ \A x \in ModuleEntries : n < x
                   /\ PrereqReported(p) = "Installed" => es = {n}
                   /\ (PrereqReported(p) = "Missing" /\ item.installer.some) =>
                        /\ es = {n, n + 1}
                        /\ log[n + 1].op = "run_installer"
                        /\ \A x \in ModuleEntries : n + 1 < x
                        /\ ~log[n + 1].ok =>
                             /\ n + 1 = Len(log) /\ inst.pc = "err"
                             /\ ModuleEntries = {}
                             /\ host.module_dirs = pre.module_dirs
                             /\ host.present = pre.present
                   /\ (PrereqReported(p) = "Missing" /\ ~item.installer.some) =>
                        /\ es = {n, n + 1}
                        /\ log[n + 1] = L("missing_installer", 0, p, FALSE)
                        /\ n + 1 = Len(log) /\ inst.pc = "err"
                        /\ ModuleEntries = {}

(* The first prerequisite was missing and got installed, the second was     *)
(* found installed, and the modules were processed after them.              *)
C22_Witness ==
    /\ InstallRunning /\ inst.pc = "ok"
    /\ PrereqReported("dotnet_fx48") = "Missing"
    /\ PrereqReported("vcredist_2015_2022_x64") = "Installed"
    /\ \E n \in 1..Len(log) : log[n] = L("run_installer", 0, "dotnet_fx48", TRUE)
    /\ PrereqEntries("vcredist_2015_2022_x64") # {}
    /\ ModuleEntries # {}

(* The position in the manifest of the module a state entry names.          *)
EntryModule(e) == CHOOSE k \in 1..Len(manifest.modules) : ModuleId(k) = e.id
Rooted(e) == e.install_root # None

(* The modules the run has installed so far: those with a rooted entry.     *)
InstalledByRun ==
    {EntryModule(inst.state.modules[x]) :
       x \in {y \in 1..Len(inst.state.modules) : Rooted(inst.state.modules[y])}}

DeclaresPlugin(k) == manifest.modules[k].enabled /\ manifest.modules[k].plugin.some

(* The artifact of module k's registration, as write_plugins names it.      *)
Artifact(k) ==
    [dir |-> IF manifest.post_config.plugin_dir # None
             THEN manifest.post_config.plugin_dir ELSE "ProgramData/XiaoHaiAssistant/plugins",
     id |-> manifest.modules[k].plugin.id, module_id |-> ModuleId(k)]

(* The last enabled module that declares a registration of the id of k's.   *)
LastDeclaring(k) ==
    CHOOSE j \in 1..Len(manifest.modules) :
      /\ DeclaresPlugin(j) /\ manifest.modules[j].plugin.id = manifest.modules[k].plugin.id
      /\ \A x \in 1..Len(manifest.modules) :
           (DeclaresPlugin(x) /\ manifest.modules[x].plugin.id = manifest.modules[k].plugin.id)
             => x <= j

PluginsWritten == \E n \in 1..Len(log) : log[n] = L("write_plugins", 0, "", TRUE)

DetectedByRun ==
    {EntryModule(inst.state.modules[x]) :
       x \in {y \in 1..Len(inst.state.modules) : ~Rooted(inst.state.modules[y])}}

DeclaringModules == {k \in 1..Len(manifest.modules) : DeclaresPlugin(k)}

(* C25: after a successful install on a host without artifacts the plugin   *)
(* directory holds, for every enabled module declaring a registration, the  *)
(* artifact named by the registration's id with the module's id in it, and  *)
(* as many artifacts as there are such modules.                             *)
C25_OneArtifactPerModule ==
    (InstallRunning /\ inst.pc = "ok" /\ pre.plugins = {}) =>
      /\ \A k \in DeclaringModules : Artifact(k) \in host.plugins
      /\ Cardinality(host.plugins) = Cardinality(DeclaringModules)

BothDone == inst.pc = "ok" /\ unin.pc = "ok"

(* The mutations the install run made (those its state lists) that are      *)
(* still on the host.                                                       *)
RemainingMutations ==
    {<<"service", inst.state.service_name>> : x \in
        {y \in {1} : inst.state.service_name # None /\ inst.state.service_name \in host.services}}
    \cup {<<"firewall", inst.state.firewall_rules[j]>> : j \in
        {y \in 1..Len(inst.state.firewall_rules) : host.firewall[inst.state.firewall_rules[y]] > 0}}
    \cup {<<"shortcut", inst.state.created_shortcuts[j].location>> : j \in
        {y \in 1..Len(inst.state.created_shortcuts) :
           inst.state.created_shortcuts[y].path \in host.links}}

MadeMutations ==
    (IF inst.state.service_name # None THEN {<<"service", inst.state.service_name>>} ELSE {})
    \cup {<<"firewall", inst.state.firewall_rules[j]>> : j \in 1..Len(inst.state.firewall_rules)}
    \cup {<<"shortcut", inst.state.created_shortcuts[j].location>> :
            j \in 1..Len(inst.state.created_shortcuts)}

Pos(e) == CHOOSE n \in 1..Len(log) : log[n] = e

UninstallOps ==
    {"read_state", "delete_rule", "delete_hklm_run", "uninstall_service", "remove_file",
     "remove_plugins", "no_uninstaller", "run_uninstaller", "remove_module_dir",
     "remove_install_root", "remove_program_data"}

(* The install run had returned when the uninstall run started.             *)
InstallFirst ==
    Pos(L("persist_state", 0, "", TRUE)) < Pos(L("load_manifest", 0, "uninstall", TRUE))

(* Every call of the uninstall run was made before the install run started. *)
UninstallFirst ==
    \A n \in 1..Len(log) :
      (log[n].op \in UninstallOps \/ log[n] = L("load_manifest", 0, "uninstall", TRUE))
        => n < Pos(L("load_manifest", 0, "install", TRUE))

(* Both runs returned Ok, mutations of the install run are in place and no  *)
(* state file records them.                                                 *)
Orphaned == BothDone /\ RemainingMutations # {} /\ ~host.state_file.exists

(* C26: with one install and one uninstall process on a host and no         *)
(* external failure, the runs are safe one after the other (install then    *)
(* uninstall leaves no mutation and no state file, uninstall then install   *)
(* leaves every mutation recorded in the state file), and mutations are     *)
(* left without a state file only when the two runs overlapped and the      *)
(* uninstall run had read no state; such an interleaving exists.            *)
C26_OverlapLosesRecord ==
    BothDone =>
      /\ InstallFirst => RemainingMutations = {} /\ ~host.state_file.exists
      /\ UninstallFirst =>
           /\ host.state_file = [exists |-> TRUE, parses |-> TRUE, state |-> inst.state]
           /\ RemainingMutations = MadeMutations
      /\ Orphaned => ~InstallFirst /\ ~UninstallFirst /\ ~unin.loaded

(* Both runs returned Ok without any external failure; the service, the     *)
(* firewall rule and the shortcut of the install run are in place and the   *)
(* state file is gone.                                                      *)
C26_Witness ==
    /\ Orphaned
    /\ RemainingMutations =
         {<<"service", "XiaoHaiAgent">>, <<"firewall", "r1">>, <<"shortcut", "desktop">>}
    /\ hist[Len(hist)].res = "ok" /\ hist[Len(hist) - 1].res = "ok"

(* The names of the successful calls of op in the run, in call order.       *)
Succeeded(op) == OpNamesOf(SelectSeq(log, LAMBDA e : e.op = op /\ e.ok))

(* C27: at every point of an install run the state in memory lists the      *)
(* shortcuts created, the autorun value set, the service installed and the  *)
(* firewall rules added by the successful calls made so far, in call order, *)
(* and nothing else: nothing for a failed call or a disabled integration;   *)
(* the state file a successful run writes holds exactly that state.         *)
C27_StateRecordsMutations ==
    InstallRunning =>
      LET st == inst.state IN
      /\ [j \in 1..Len(st.created_shortcuts) |-> st.created_shortcuts[j].location]
           = Succeeded("create_shortcut")
      /\ \A j \in 1..Len(st.created_shortcuts) :
           st.created_shortcuts[j].path =
             IF st.created_shortcuts[j].location = "desktop"
             THEN [folder |-> "Desktop", name |-> "XiaoHai"]
             ELSE [folder |-> "Programs", name |-> "XiaoHai"]
      /\ st.firewall_rules = Succeeded("add_rule")
      /\ Succeeded("set_hklm_run") =
           IF st.autorun_name = None THEN <<>> ELSE <<st.autorun_name>>
      /\ Succeeded("install_service") =
           IF st.service_name = None THEN <<>> ELSE <<st.service_name>>
      /\ ~manifest.shortcuts.desktop /\ ~manifest.shortcuts.start_menu
           => st.created_shortcuts = <<>>
      /\ ~manifest.autorun.enabled => st.autorun_name = None
      /\ ~manifest.service.enabled => st.service_name = None
      /\ ~manifest.firewall.enabled => st.firewall_rules = <<>>
      /\ inst.pc = "ok" =>
           host.state_file = [exists |-> TRUE, parses |-> TRUE, state |-> st]

(* The second firewall rule failed: the state lists the shortcuts, the      *)
(* autorun value, the service and the first rule.                           *)
C27_Witness ==
    /\ InstallRunning /\ inst.pc = "err"
    /\ Last(log) = L("add_rule", 2, "r2", FALSE)
    /\ inst.state.firewall_rules = <<"r1">>
    /\ Len(inst.state.created_shortcuts) = 2
    /\ inst.state.service_name = "XiaoHaiAgent"
    /\ inst.state.autorun_name = "XiaoHaiAssistant"

UninstallRunning == unin.pc # "idle" /\ log # <<>> /\ log[1].name = "uninstall"

(* The run before the current uninstall was an install that failed after it *)
(* had created a shortcut, a service or a firewall rule, and there is no    *)
(* state file.                                                              *)
AfterPartialInstall ==
    LET n == IF unin.pc \in {"ok", "err"} THEN Len(hist) - 1 ELSE Len(hist) IN
    /\ UninstallRunning
    /\ n >= 1 /\ hist[n].cmd = "install" /\ hist[n].res = "err"
    /\ ~pre.state_file.exists
    /\ \/ pre.services # {}
       \/ \E r \in DOMAIN pre.firewall : pre.firewall[r] > 0
       \/ \E l \in pre.links : l.name = "XiaoHai"

(* C28: an uninstall after such a partial install attempts the removal of   *)
(* no firewall rule, no service and no shortcut, so these stay on the host; *)
(* of the recorded kinds of mutation it only attempts the autorun entry of  *)
(* the manifest, when autorun is enabled; it ends in error only at a call   *)
(* that failed by itself (privilege, manifest, program-data path, listing   *)
(* of the plugin directory, an uninstaller).                                *)
C28_UninstallAfterPartialInstall ==
    AfterPartialInstall =>
      /\ \A n \in 1..Len(log) :
           /\ log[n].op \notin {"delete_rule", "uninstall_service", "remove_file"}
           /\ log[n].op = "delete_hklm_run" =>
                manifest.autorun.enabled /\ log[n].name = DeclaredAutorunName
      /\ host.services = pre.services
      /\ host.firewall = pre.firewall
      /\ host.links = pre.links
      /\ unin.pc = "err" =>
           /\ ~Last(log).ok
           /\ Last(log).op \in {"privilege", "load_manifest", "read_state", "remove_plugins",
                                "run_uninstaller"}
      /\ unin.pc = "ok" => Last(hist).res = "ok" /\ ~host.state_file.exists

(* The uninstall returned Ok; the service, the firewall rule and the         *)
(* shortcut of the failed install are still on the host.                    *)
C28_Witness ==
    /\ AfterPartialInstall /\ unin.pc = "ok"
    /\ host.services = {"XiaoHaiAgent"}
    /\ host.firewall["r1"] > 0
    /\ \E l \in host.links : l.name = "XiaoHai"
    /\ ~host.install_root /\ ~host.state_file.exists

(* <install_root>/<install_subdir> when given, else <install_root>/<id>.    *)
ExpectedDir(k) ==
    LET p == manifest.modules[k].payload IN
    IF p.some /\ p.install_subdir # None THEN p.install_subdir
    ELSE IF k = 1 THEN "m1" ELSE IF k = 2 THEN "m2" ELSE IF k = 3 THEN "m3" ELSE "m4"

FileCopyModules ==
    {k \in 1..Len(manifest.modules) :
       manifest.modules[k].enabled /\ manifest.modules[k].kind = "file_copy"}

(* C29: install copies the payload of an enabled file-copy module into      *)
(* <install_root>/<install_subdir>, or <install_root>/<module id> without a *)
(* subdirectory, and that is the directory uninstall removes for the        *)
(* module: it attempts the removal exactly when the directory exists, and a *)
(* failed removal does not end the run.                                     *)
C29_UninstallRemovesDestination ==
    /\ InstallRunning =>
         \A n \in 1..Len(log) :
           log[n].op = "copy_recursively" =>
             /\ log[n].m \in FileCopyModules /\ log[n].name = ExpectedDir(log[n].m)
             /\ log[n].ok => ExpectedDir(log[n].m) \in host.module_dirs
    /\ UninstallRunning =>
         /\ \A n \in 1..Len(log) :
              log[n].op = "remove_module_dir" =>
                /\ log[n].m \in FileCopyModules /\ log[n].name = ExpectedDir(log[n].m)
                /\ ExpectedDir(log[n].m) \in pre.module_dirs
                /\ n = Len(log) => unin.pc # "err"
         /\ unin.pc \in {"install_root", "program_data", "ok"} =>
              \A k \in FileCopyModules :
                ExpectedDir(k) \in pre.module_dirs =>
                  \E n \in 1..Len(log) :
                    /\ log[n].op = "remove_module_dir" /\ log[n].m <= k
                    /\ log[n].name = ExpectedDir(k)
         /\ \A k \in FileCopyModules :
              ExpectedDir(k) \notin pre.module_dirs =>
                \A n \in 1..Len(log) : ~(log[n].op = "remove_module_dir" /\ log[n].m = k)

(* After an install, uninstall removed the directory of a module with a     *)
(* subdirectory and failed to remove that of a module without one.          *)
C29_Witness ==
    /\ UninstallRunning /\ UninstallAfterInstall /\ unin.pc = "ok"
    /\ \E n \in 1..Len(log) : log[n] = L("remove_module_dir", 1, "appdir", TRUE)
    /\ \E n \in 1..Len(log) : log[n] = L("remove_module_dir", 2, "m2", FALSE)
    /\ pre.module_dirs = {"appdir", "m2"}

(* The descriptor the install step of module k needs is not declared.       *)
LacksDescriptor(k) ==
    LET m == manifest.modules[k] IN
    IF m.kind = "file_copy" THEN ~m.payload.some ELSE ~m.installer.some

MissingOp(k) ==
    IF manifest.modules[k].kind = "file_copy" THEN "missing_payload" ELSE "missing_installer"

(* C30: in an install run a module without the descriptor its kind needs    *)
(* fails the run with a configuration error right after a detection that    *)
(* returned false, with no copy or process run for it and no state entry;   *)
(* when detection returned true the module is skipped without error and     *)
(* the run goes on; a configuration error is raised for no other module.    *)
C30_MissingDescriptorAtInstallStep ==
    InstallRunning =>
      /\ \A n \in 1..Len(log) :
           (log[n].op = "detect" /\ log[n].ok /\ LacksDescriptor(log[n].m)) =>
             LET k == log[n].m IN
             /\ \A x \in 1..Len(log) :
                  log[x].m = k => log[x].op \notin {"run_installer", "copy_recursively",
                                                     "resolve_path", "apply_module_config"}
             /\ log[n].name = "false" =>
                  /\ k \notin InstalledByRun \cup DetectedByRun
                  /\ IF n = Len(log) THEN inst.pc = "install" /\ inst.i = k
                     ELSE /\ n + 1 = Len(log)
                          /\ log[n + 1] = L(MissingOp(k), k, "", FALSE)
                          /\ inst.pc = "err"
                          /\ Last(hist).cmd = "install" /\ Last(hist).res = "err"
             /\ log[n].name = "true" =>
                  /\ k \in DetectedByRun
                  /\ \A x \in 1..Len(log) :
                       (log[x].m = k /\ log[x].op \in ModuleStepOps) => x = n
                  /\ n = Len(log) => inst.pc # "err"
      /\ \A n \in 1..Len(log) :
           (log[n].m > 0 /\ log[n].op \in {"missing_payload", "missing_installer"}) =>
             /\ LacksDescriptor(log[n].m) /\ log[n].op = MissingOp(log[n].m)
             /\ log[n - 1] = L("detect", log[n].m, "false", TRUE)

(* A file-copy module without payload was found installed and skipped; the  *)
(* native module after it has no installer, was not found and failed.       *)
C30_Witness ==
    /\ InstallRunning /\ inst.pc = "err"
    /\ Len(manifest.modules) = 2
    /\ manifest.modules[1].kind = "file_copy" /\ LacksDescriptor(1)
    /\ manifest.modules[2].kind = "msi" /\ LacksDescriptor(2)
    /\ DetectedByRun = {1}
    /\ Last(log) = L("missing_installer", 2, "", FALSE)

(* The registry key or value prerequisite p is detected by does not exist   *)
(* on the host the run started on.                                          *)
PrereqAbsent(p) ==
    IF p = "dotnet_fx48" THEN pre.dotnet_release < 0 ELSE pre.vc_installed < 0

(* C31: an enabled prerequisite whose registry key or value does not exist  *)
(* on the host is classified as Missing and not as an error: its status     *)
(* check never fails, and when it declares an installer the installer is    *)
(* run right after the check.                                               *)
C31_AbsentIsMissing ==
    InstallRunning =>
      \A p \in {"dotnet_fx48", "vcredist_2015_2022_x64"} :
        (PrereqItem(p).enabled /\ PrereqAbsent(p)) =>
          \A n \in PrereqEntries(p) :
            log[n].op = "prereq_status" =>
              /\ log[n].ok
              /\ PrereqItem(p).installer.some =>
                   /\ n < Len(log) /\ log[n + 1].op = "run_installer"
                   /\ log[n + 1].name = p

(* The module loop of the uninstall run has gone past module k.             *)
PassedModule(k) ==
    \/ unin.pc \in {"install_root", "program_data", "ok"}
    \/ unin.pc = "module" /\ unin.i > k

ModuleStepEntries == {n \in 1..Len(log) : log[n].op \in UninstallModuleOps}

(* C32: uninstall decides the per-module actions from the manifest alone,   *)
(* in manifest order: every module step is for an enabled module and is the *)
(* one its kind declares, the steps are in manifest order, and once the     *)
(* loop has passed an enabled module its declared uninstaller has run       *)
(* (msi/exe) and the removal of its destination directory, if the directory *)
(* was on the host, has been attempted (file-copy), whether or not a state  *)
(* file was loaded and whatever the state records about the module.         *)
C32_UninstallFromManifest ==
    UninstallRunning =>
      /\ \A x, y \in ModuleStepEntries : x < y => log[x].m < log[y].m
      /\ \A n \in ModuleStepEntries :
           LET k == log[n].m
               m == manifest.modules[k]
           IN  /\ m.enabled
               /\ log[n].op = "run_uninstaller" => m.kind \in {"msi", "exe"} /\ m.uninstaller.some
               /\ log[n].op = "no_uninstaller" => m.kind \in {"msi", "exe"} /\ ~m.uninstaller.some
               /\ log[n].op = "remove_module_dir" =>
                    m.kind = "file_copy" /\ log[n].name = UninstallDir(k, m)
      /\ \A k \in 1..Len(manifest.modules) :
           LET m == manifest.modules[k] IN
           (m.enabled /\ PassedModule(k)) =>
             /\ (m.kind \in {"msi", "exe"} /\ m.uninstaller.some) =>
                  \E n \in ModuleStepEntries : log[n] = L("run_uninstaller", k, "", TRUE)
             /\ (m.kind = "file_copy" /\ UninstallDir(k, m) \in pre.module_dirs) =>
                  \E n \in ModuleStepEntries :
                    /\ log[n].op = "remove_module_dir" /\ log[n].m <= k
                    /\ log[n].name = UninstallDir(k, m)

(* The loaded state records module 1 as merely detected (no install root)   *)
(* and the uninstall run has run its uninstaller all the same.              *)
C32_Witness ==
    /\ UninstallRunning /\ unin.pc = "ok" /\ unin.loaded
    /\ \E x \in 1..Len(unin.state.modules) :
         /\ unin.state.modules[x].id = ModuleId(1)
         /\ unin.state.modules[x].install_root = None
    /\ \E n \in 1..Len(log) : log[n] = L("run_uninstaller", 1, "", TRUE)

(* The install run has made an installing call for module k.                *)
InstalledInRun(k) ==
    \E n \in 1..Len(log) : log[n].m = k /\ log[n].op \in {"run_installer", "copy_recursively"}

(* C33: the state persisted by a successful install carries the manifest's  *)
(* product_code and version and exactly one entry per enabled module, in    *)
(* manifest order, each with installed = true; the entry's install_root is  *)
(* the manifest's install_root when the module was installed in this run    *)
(* and absent when detection skipped it.                                    *)
C33_PersistedModuleEntries ==
    (InstallRunning /\ inst.pc = "ok") =>
      LET st == host.state_file.state
          en == EnabledSeq(manifest.modules)
      IN  /\ host.state_file.exists /\ host.state_file.parses
          /\ st.product_code = manifest.product_code
          /\ st.version = manifest.version
          /\ Len(st.modules) = Len(en)
          /\ \A x \in 1..Len(en) :
               LET k == en[x]
                   e == st.modules[x]
               IN  /\ e.id = ModuleId(k)
                   /\ e.kind = KindDebug(manifest.modules[k].kind)
                   /\ e.installed
                   /\ e.install_root =
                        IF InstalledInRun(k) THEN manifest.install_root ELSE None
                   /\ ~InstalledInRun(k) =>
                        \E n \in 1..Len(log) : log[n] = L("detect", k, "true", TRUE)

(* A successful install of two enabled modules: the first skipped by        *)
(* detection, the second installed.                                         *)
C33_Witness ==
    /\ InstallRunning /\ inst.pc = "ok"
    /\ Len(EnabledSeq(manifest.modules)) = 2
    /\ ~InstalledInRun(EnabledSeq(manifest.modules)[1])
    /\ InstalledInRun(EnabledSeq(manifest.modules)[2])
    /\ Len(host.state_file.state.modules) = 2

(* C34: after a successful install of a manifest with at least one enabled  *)
(* module the persisted state has a module entry whose install_root is the  *)
(* manifest's install_root.                                                 *)
C34_StateNamesInstallRoot ==
    (InstallRunning /\ inst.pc = "ok" /\ EnabledModules(manifest.modules) # {}) =>
      \E x \in 1..Len(host.state_file.state.modules) :
        host.state_file.state.modules[x].install_root = manifest.install_root

(* Nothing of the product is on host h: no state file, no plugin directory, *)
(* no module directory, no install root, no program-data root.              *)
NothingInstalled(h) ==
    /\ ~h.state_file.exists
    /\ DefaultPluginDir \notin h.dirs /\ ProgramData \notin h.dirs
    /\ h.module_dirs = {} /\ ~h.install_root

(* Every enabled module is file-copy or declares no uninstaller.            *)
NoUninstallerToRun ==
    \A k \in EnabledModules(manifest.modules) :
      manifest.modules[k].kind = "file_copy" \/ ~manifest.modules[k].uninstaller.some

(* The run was refused or cut short by its environment: the privilege       *)
(* check, the manifest file, the lookup of the ProgramData variable.        *)
EnvironmentFailure ==
    /\ ~Last(log).ok
    /\ \/ Last(log).op \in {"privilege", "load_manifest"}
       \/ Last(log) = L("read_state", 0, "ProgramData", FALSE)

(* C35: an uninstall started on a host where nothing is installed, with a   *)
(* manifest whose enabled modules are file-copy or declare no uninstaller,  *)
(* never ends in error because something is absent, runs no process,        *)
(* creates nothing and leaves the host as it found it; so a second          *)
(* uninstall right after it starts on such a host again.                    *)
C35_UninstallOnEmptyHost ==
    (UninstallRunning /\ NothingInstalled(pre) /\ NoUninstallerToRun) =>
      /\ unin.pc = "err" => EnvironmentFailure
      /\ host = pre /\ NothingInstalled(host)
      /\ \A n \in 1..Len(log) : log[n].op # "run_uninstaller"
      /\ \A n \in 1..Len(log) : ~log[n].ok => (n = Len(log) /\ EnvironmentFailure)
                                              \/ log[n].op = "delete_hklm_run"

(* Two uninstalls in a row on a host with nothing installed, both returned  *)
(* Ok, for a manifest with an enabled module; the plugin directory was      *)
(* found missing.                                                           *)
C35_Witness ==
    /\ UninstallRunning /\ unin.pc = "ok" /\ NothingInstalled(pre) /\ NoUninstallerToRun
    /\ EnabledModules(manifest.modules) # {}
    /\ Len(hist) = 2 /\ hist[1].cmd = "uninstall" /\ hist[1].res = "ok"
    /\ hist[2].res = "ok"
    /\ \E n \in 1..Len(log) : log[n] = L("remove_plugins", 0, "missing", TRUE)

(* ------------------------------------------------------------ SSO tokens *)
(* xiaohai-core auth.rs: TokenIssuer::issue and TokenIssuer::verify called  *)
(* on their own.  A clock reading is a number of ticks; a token text        *)
(* "<version>.<part>.<part>..." is its version and the sequence of the      *)
(* other dot-separated parts; a part is base64 text of some bytes or text   *)
(* that is not base64; bytes are the JSON of claims, an HMAC, or other.     *)
Secrets == {"k1", "k2"}
Subjects == {"alice", "bob"}
Clock == 0..MaxClock
Ttls == {s * TicksPerSecond : s \in -1..MaxTtl}
Skews == 0..MaxSkew

TokenClaims(subject, product_code, issued_at_unix, expires_at_unix) ==
    [subject |-> subject, product_code |-> product_code,
     issued_at_unix |-> issued_at_unix, expires_at_unix |-> expires_at_unix]

NoClaims == TokenClaims("", "", 0, 0)

TokenIssuer(secret, product_code) == [secret |-> secret, product_code |-> product_code]

(* OffsetDateTime::unix_timestamp: whole seconds, the sub-second part is    *)
(* dropped.                                                                 *)
unix_timestamp(t) == t \div TicksPerSecond

(* OffsetDateTime::from_unix_timestamp *)
from_unix_timestamp(secs) == secs * TicksPerSecond

(* serde_json::to_vec(&claims); bytes that are not the JSON of claims.      *)
to_vec(claims) == [kind |-> "json", claims |-> claims, key |-> "", over |-> ""]
RawBytes == [kind |-> "raw", claims |-> NoClaims, key |-> "", over |-> ""]

(* HMAC-SHA256 of msg under key: equal only for equal key and message.      *)
HmacSha256(key, msg) == [kind |-> "mac", claims |-> msg.claims, key |-> key, over |-> msg.kind]

(* URL_SAFE_NO_PAD.encode, and a part that does not decode.                 *)
encode(bytes) == [b64 |-> TRUE, bytes |-> bytes]
NotBase64 == [b64 |-> FALSE, bytes |-> RawBytes]

NoToken == [version |-> "", rest |-> <<>>]

(* TokenIssuer::issue at clock reading now.                                 *)
issue(issuer, subject, ttl, now) ==
    LET claims == TokenClaims(subject, issuer.product_code,
                              unix_timestamp(now), unix_timestamp(now + ttl))
        payload == to_vec(claims)
        sig == HmacSha256(issuer.secret, payload)
    IN  [version |-> "v1", rest |-> <<encode(payload), encode(sig)>>]

TokenOk(claims) == [tag |-> "Ok", claims |-> claims]
TokenError(e) == [tag |-> e, claims |-> NoClaims]

(* Mutant: the time window is open at both ends.                            *)
verify_open_window(issuer, token, allowed_clock_skew, now) ==
    IF token.version # "v1" \/ Len(token.rest) # 2 THEN TokenError("BadFormat")
    ELSE IF ~token.rest[1].b64 \/ ~token.rest[2].b64 THEN TokenError("Decode")
    ELSE LET payload == token.rest[1].bytes
             sig == token.rest[2].bytes
         IN  IF sig # HmacSha256(issuer.secret, payload) THEN TokenError("BadSignature")
             ELSE IF payload.kind # "json" THEN TokenError("Decode")
             ELSE IF now + allowed_clock_skew <= from_unix_timestamp(payload.claims.issued_at_unix)
             THEN TokenError("NotYetValid")
             ELSE IF now - allowed_clock_skew >= from_unix_timestamp(payload.claims.expires_at_unix)
             THEN TokenError("Expired")
             ELSE TokenOk(payload.claims)

(* Mutant: the payload is deserialized and the window evaluated before the  *)
(* signature is checked.                                                    *)
verify_signature_last(issuer, token, allowed_clock_skew, now) ==
    IF token.version # "v1" \/ Len(token.rest) # 2 THEN TokenError("BadFormat")
    ELSE IF ~token.rest[1].b64 \/ ~token.rest[2].b64 THEN TokenError("Decode")
    ELSE LET payload == token.rest[1].bytes
             sig == token.rest[2].bytes
         IN  IF payload.kind # "json" THEN TokenError("Decode")
             ELSE IF now + allowed_clock_skew < from_unix_timestamp(payload.claims.issued_at_unix)
             THEN TokenError("NotYetValid")
             ELSE IF now - allowed_clock_skew > from_unix_timestamp(payload.claims.expires_at_unix)
             THEN TokenError("Expired")
             ELSE IF sig # HmacSha256(issuer.secret, payload) THEN TokenError("BadSignature")
             ELSE TokenOk(payload.claims)

(* TokenIssuer::verify at clock reading now.                                *)
verify(issuer, token, allowed_clock_skew, now) ==
    IF token.version # "v1" THEN TokenError("BadFormat")
    ELSE IF Len(token.rest) < 2 THEN TokenError("BadFormat")
    ELSE IF Len(token.rest) > 2 THEN TokenError("BadFormat")
    ELSE IF ~token.rest[1].b64 THEN TokenError("Decode")
    ELSE IF ~token.rest[2].b64 THEN TokenError("Decode")
    ELSE LET payload == token.rest[1].bytes
             sig == token.rest[2].bytes
         IN  IF sig # HmacSha256(issuer.secret, payload) THEN TokenError("BadSignature")
             ELSE IF payload.kind # "json" THEN TokenError("Decode")
             ELSE IF now + allowed_clock_skew < from_unix_timestamp(payload.claims.issued_at_unix)
             THEN TokenError("NotYetValid")
             ELSE IF now - allowed_clock_skew > from_unix_timestamp(payload.claims.expires_at_unix)
             THEN TokenError("Expired")
             ELSE TokenOk(payload.claims)

(* What a holder of token t who does not know the issuer's secret can       *)
(* present: t itself, t with another version or another number of parts, t  *)
(* with a part that is not base64, t with an altered payload or signature,  *)
(* and tokens signed with a secret of the holder's own.                     *)
Presentable(t, issuer) ==
    LET claims == t.rest[1].bytes.claims
        others == {to_vec([claims EXCEPT !.expires_at_unix = @ + unix_timestamp(MaxClock) + 1]),
                   to_vec([claims EXCEPT !.subject = "root"]), RawBytes}
    IN  [how : {"as_issued"}, token : {t}]
        \cup [how : {"version"}, token : {[t EXCEPT !.version = "v2"]}]
        \cup [how : {"parts"}, token : {[t EXCEPT !.rest = <<>>], [t EXCEPT !.rest = <<@[1]>>],
                                        [t EXCEPT !.rest = Append(@, @[2])]}]
        \cup [how : {"not_base64"}, token : {[t EXCEPT !.rest[1] = NotBase64],
                                             [t EXCEPT !.rest[2] = NotBase64]}]
        \cup [how : {"payload"}, token : {[t EXCEPT !.rest[1] = encode(p)] : p \in others}]
        \cup [how : {"signature"}, token : {[t EXCEPT !.rest[2] = encode(RawBytes)]}]
        \cup [how : {"other_secret"},
              token : {[t EXCEPT !.rest = <<encode(p), encode(HmacSha256(k, p))>>]
                         : p \in others \cup {t.rest[1].bytes}, k \in Secrets \ {issuer.secret}}]

InitAuth ==
    /\ manifest = Manifest(<<>>, NoPrereqs, NoShortcuts, NoAutorun, NoService, NoFirewall,
                           DefaultPost)
    /\ host = FreshHost({}, FALSE, RegAbsent, -1, -1)
    /\ inst = IdleRun /\ unin = IdleRun
    /\ log = <<>> /\ runs = 0 /\ faults = 0 /\ pre = host /\ hist = <<>>
    /\ stdout = NoOutput /\ call = NoCall
    /\ conn = <<>> /\ agent = <<>>
    /\ \E secret \in Secrets :
         auth = [pc |-> "new", issuer |-> TokenIssuer(secret, manifest.product_code),
                 subject |-> "", ttl |-> 0, issued_now |-> 0, token |-> NoToken,
                 how |-> "", presented |-> NoToken,
                 skew |-> 0, now |-> 0, ret |-> TokenError("none")]

call_issue ==
    /\ auth.pc = "new"
    /\ \E subject \in Subjects, ttl \in Ttls, now \in Clock :
         auth' = [auth EXCEPT !.pc = "issued", !.subject = subject, !.ttl = ttl,
                              !.issued_now = now,
                              !.token = issue(auth.issuer, subject, ttl, now)]
    /\ UNCHANGED <<conn, agent, call, manifest, host, inst, unin, log, runs, faults, pre,
                   hist, stdout>>

present ==
    /\ auth.pc = "issued"
    /\ \E p \in Presentable(auth.token, auth.issuer) :
         auth' = [auth EXCEPT !.pc = "presented", !.how = p.how, !.presented = p.token]
    /\ UNCHANGED <<conn, agent, call, manifest, host, inst, unin, log, runs, faults, pre,
                   hist, stdout>>

call_verify ==
    /\ auth.pc = "presented"
    /\ \E skew \in Skews, now \in Clock :
         auth' = [auth EXCEPT !.pc = "verified", !.skew = skew, !.now = now,
                              !.ret = verify(auth.issuer, auth.presented, skew, now)]
    /\ UNCHANGED <<conn, agent, call, manifest, host, inst, unin, log, runs, faults, pre,
                   hist, stdout>>

NextAuth == call_issue \/ present \/ call_verify

SpecAuth == InitAuth /\ [][NextAuth]_vars

WellFormed(t) ==
    /\ t.version = "v1" /\ Len(t.rest) = 2
    /\ t.rest[1].b64 /\ t.rest[2].b64

(* C37: verify never accepts a token that the issuer's secret did not sign: *)
(* a wrong version or a number of parts other than three is BadFormat, a    *)
(* part that is not base64 is Decode, an altered payload or signature or a  *)
(* signature under another secret is BadSignature, whatever the payload     *)
(* holds and whatever the clock reads (the signature is checked before the  *)
(* payload is deserialized and before the time window).                     *)
C37_OnlySignedTokensAccepted ==
    (auth # <<>> /\ auth.pc = "verified") =>
      LET t == auth.presented IN
      /\ auth.ret.tag = "Ok" =>
           /\ WellFormed(t)
           /\ t.rest[2].bytes = HmacSha256(auth.issuer.secret, t.rest[1].bytes)
           /\ t = auth.token
      /\ (t.version # "v1" \/ Len(t.rest) + 1 # 3) => auth.ret.tag = "BadFormat"
      /\ (t.version = "v1" /\ Len(t.rest) = 2 /\ ~WellFormed(t)) => auth.ret.tag = "Decode"
      /\ (WellFormed(t) /\ auth.how \in {"payload", "signature", "other_secret"}) =>
           auth.ret.tag = "BadSignature"
      /\ auth.how = "as_issued" => auth.ret.tag \in {"Ok", "NotYetValid", "Expired"}

(* A token signed with another secret whose payload is not JSON, and one    *)
(* whose claims are inside the window, are both refused for the signature.  *)
C37_Witness ==
    /\ auth # <<>> /\ auth.pc = "verified" /\ auth.how = "other_secret"
    /\ auth.ret.tag = "BadSignature"
    /\ auth.presented.rest[2].bytes.key # auth.issuer.secret
    /\ \/ auth.presented.rest[1].bytes.kind = "raw"
       \/ /\ auth.presented.rest[1].bytes.kind = "json"
          /\ auth.now + auth.skew < auth.presented.rest[1].bytes.claims.issued_at_unix * TicksPerSecond

(* ------------------------------------------------------------------- IPC *)
(* xiaohai-assistant main.rs: the task run_ipc_loop spawns for one accepted *)
(* connection.  The client writes lines and may shut its side down; the     *)
(* task reads a line, answers it and reads the next one.                    *)
RequestIds == 1..2
nil == 0        \* Uuid::nil()

Ping(request_id) ==
    [type |-> "ping", request_id |-> request_id, arg |-> ""]
GetSsoToken(request_id, subject) ==
    [type |-> "get_sso_token", request_id |-> request_id, arg |-> subject]
GetAppStatus(request_id, app_id) ==
    [type |-> "get_app_status", request_id |-> request_id, arg |-> app_id]

IpcRequest ==
    {Ping(id) : id \in RequestIds} \cup {GetSsoToken(id, "alice") : id \in RequestIds}
    \cup {GetAppStatus(id, "app") : id \in RequestIds}

(* A line of text: the JSON of a request or text that is no request; and a  *)
(* line whose bytes are not UTF-8.                                          *)
Lines ==
    [utf8 : {TRUE}, json : {TRUE}, req : IpcRequest]
    \cup [utf8 : BOOLEAN, json : {FALSE}, req : {Ping(1)}]

Pong(request_id) ==
    [type |-> "pong", request_id |-> request_id, token |-> NoToken, expires_at_unix |-> 0,
     app_id |-> "", running |-> FALSE]
SsoToken(request_id, token, expires_at_unix) ==
    [type |-> "sso_token", request_id |-> request_id, token |-> token,
     expires_at_unix |-> expires_at_unix, app_id |-> "", running |-> FALSE]
AppStatus(request_id, app_id, running) ==
    [type |-> "app_status", request_id |-> request_id, token |-> NoToken, expires_at_unix |-> 0,
     app_id |-> app_id, running |-> running]
Error(request_id) ==
    [type |-> "error", request_id |-> request_id, token |-> NoToken, expires_at_unix |-> 0,
     app_id |-> "", running |-> FALSE]

(* The clock readings of issue and verify in handle_ipc: the same second,   *)
(* or a clock that was set back by more than the skew in between.           *)
IpcClock == {0, 31 * TicksPerSecond}

(* What get_app_running_status of the requested application returns.        *)
AppOutcomes == {"running", "stopped", "err"}

(* handle_ipc; env gives the clock readings and the application's status.   *)
handle_ipc(req, issuer, env) ==
    CASE req.type = "ping" -> Pong(req.request_id)
      [] req.type = "get_sso_token" ->
           LET ttl == 30 * 60 * TicksPerSecond      \* Duration::minutes(30)
               token == issue(issuer, req.arg, ttl, env.issued)
               r == verify(issuer, token, 30 * TicksPerSecond, env.verified)
           IN  IF r.tag # "Ok" THEN Error(req.request_id)
               ELSE SsoToken(req.request_id, token, r.claims.expires_at_unix)
      [] OTHER ->
           IF env.app = "err" THEN Error(req.request_id)
           ELSE AppStatus(req.request_id, req.arg, env.app = "running")

(* write_resp(...) with its result dropped: the response is on the wire or  *)
(* it is not, and the task goes on.                                         *)
Respond(c, line, resp, written) ==
    [c EXCEPT !.inbox = Tail(@), !.lines = Append(@, line),
              !.out = Append(@, [resp |-> resp, written |-> written]),
              !.broken = @ \/ ~written]

(* Mutant: the task ends after the error response to a bad request.         *)
BadRequestEnds(c, line, written) ==
    [c EXCEPT !.inbox = Tail(@), !.lines = Append(@, line),
              !.out = Append(@, [resp |-> Error(nil), written |-> written]),
              !.broken = @ \/ ~written, !.pc = "closed", !.end = "bad_request"]

(* lines 198-207: the error response to a line that is no request, then     *)
(* `continue`.                                                              *)
BadRequest(c, line, written) == Respond(c, line, Error(nil), written)

InitIpc ==
    /\ manifest = Manifest(<<>>, NoPrereqs, NoShortcuts, NoAutorun, NoService, NoFirewall,
                           DefaultPost)
    /\ host = FreshHost({}, FALSE, RegAbsent, -1, -1)
    /\ inst = IdleRun /\ unin = IdleRun
    /\ log = <<>> /\ runs = 0 /\ faults = 0 /\ pre = host /\ hist = <<>>
    /\ stdout = NoOutput /\ call = NoCall
    /\ auth = <<>> /\ agent = <<>>
    /\ conn = [pc |-> "read", issuer |-> TokenIssuer("k1", "xiaohai"),
               inbox |-> <<>>, shutdown |-> FALSE, lines |-> <<>>, out |-> <<>>,
               broken |-> FALSE, end |-> ""]

(* The client writes one more line.                                         *)
client_write ==
    /\ conn.pc = "read" /\ ~conn.shutdown
    /\ Len(conn.lines) + Len(conn.inbox) < MaxLines
    /\ \E line \in Lines : conn' = [conn EXCEPT !.inbox = Append(@, line)]
    /\ UNCHANGED <<auth, agent, call, manifest, host, inst, unin, log, runs, faults, pre,
                   hist, stdout>>

(* The client shuts down its sending side.                                  *)
client_shutdown ==
    /\ conn.pc = "read" /\ ~conn.shutdown
    /\ conn' = [conn EXCEPT !.shutdown = TRUE]
    /\ UNCHANGED <<auth, agent, call, manifest, host, inst, unin, log, runs, faults, pre,
                   hist, stdout>>

(* run_ipc_loop, lines 188-211: one turn of the connection task's loop.     *)
(* read_line fails on a line that is not UTF-8 and on a transport error,    *)
(* and returns 0 at the end of the stream; both end the task.               *)
connection_task ==
    /\ conn.pc = "read"
    /\ \/ /\ conn.inbox = <<>> /\ conn.shutdown
          /\ conn' = [conn EXCEPT !.pc = "closed", !.end = "eof"]
       \/ /\ conn.inbox # <<>>
          /\ LET line == Head(conn.inbox) IN
             IF ~line.utf8
             THEN conn' = [conn EXCEPT !.pc = "closed", !.end = "read_error",
                                       !.inbox = Tail(@), !.lines = Append(@, line)]
             ELSE \E written \in (IF conn.broken THEN {FALSE} ELSE BOOLEAN) :
                    IF ~line.json
                    THEN conn' = BadRequest(conn, line, written)
                    ELSE \E env \in [issued : IpcClock, verified : IpcClock, app : AppOutcomes] :
                           conn' = Respond(conn, line, handle_ipc(line.req, conn.issuer, env),
                                           written)
    /\ UNCHANGED <<auth, agent, call, manifest, host, inst, unin, log, runs, faults, pre,
                   hist, stdout>>

NextIpc == client_write \/ client_shutdown \/ connection_task

(* The runtime keeps polling a task that has input to read.                 *)
SpecIpc == InitIpc /\ [][NextIpc]_vars /\ WF_vars(connection_task)

(* The response resp answers the line.                                      *)
Answers(line, resp) ==
    IF ~line.json THEN resp = Error(nil)
    ELSE /\ resp.request_id = line.req.request_id
         /\ CASE line.req.type = "ping" -> resp = Pong(line.req.request_id)
              [] line.req.type = "get_sso_token" ->
                   \/ resp = Error(line.req.request_id)
                   \/ /\ resp.type = "sso_token"
                      /\ verify(conn.issuer, resp.token, 0,
                                resp.expires_at_unix * TicksPerSecond).tag = "Ok"
                      /\ resp.token.rest[1].bytes.claims.subject = line.req.arg
              [] OTHER ->
                   \/ resp = Error(line.req.request_id)
                   \/ \E running \in BOOLEAN :
                        resp = AppStatus(line.req.request_id, line.req.arg, running)

(* The lines read_line delivered as text.                                   *)
Delivered == SelectSeq(conn.lines, LAMBDA l : l.utf8)

RequestResponse ==
    /\ Len(conn.out) = Len(Delivered)
    /\ \A k \in 1..Len(conn.out) : Answers(Delivered[k], conn.out[k].resp)
    /\ conn.pc = "closed" =>
         \/ conn.end = "eof" /\ conn.inbox = <<>> /\ conn.shutdown
         \/ conn.end = "read_error" /\ ~Last(conn.lines).utf8

ServiceControl == {"Stop", "Interrogate", "Pause"}

(* Mutant: the handler acknowledges Stop without setting the flag.          *)
control_handler_ack_only(stop_requested, control_event) == stop_requested

(* The closure registered at lines 87-95: the value of STOP_REQUESTED after *)
(* the event.                                                               *)
control_handler(stop_requested, control_event) ==
    stop_requested \/ control_event = "Stop"

InitAgent ==
    /\ manifest = Manifest(<<>>, NoPrereqs, NoShortcuts, NoAutorun, NoService, NoFirewall,
                           DefaultPost)
    /\ host = FreshHost({}, FALSE, RegAbsent, -1, -1)
    /\ inst = IdleRun /\ unin = IdleRun
    /\ log = <<>> /\ runs = 0 /\ faults = 0 /\ pre = host /\ hist = <<>>
    /\ stdout = NoOutput /\ call = NoCall
    /\ auth = <<>> /\ conn = <<>>
    /\ agent = [pc |-> "register", STOP_REQUESTED |-> FALSE, registered |-> FALSE,
                status |-> <<>>, events |-> <<>>, returned |-> FALSE, slept |-> FALSE]

(* run_service, lines 87-95 *)
register ==
    /\ agent.pc = "register"
    /\ \E ok \in BOOLEAN :
         agent' = IF ok THEN [agent EXCEPT !.pc = "set_running", !.registered = TRUE]
                  ELSE [agent EXCEPT !.pc = "err"]
    /\ UNCHANGED <<auth, conn, call, manifest, host, inst, unin, log, runs, faults, pre,
                   hist, stdout>>

(* run_service, lines 97-105 *)
set_status_running ==
    /\ agent.pc = "set_running"
    /\ \E ok \in BOOLEAN :
         agent' = IF ok THEN [agent EXCEPT !.pc = "loop", !.status = Append(@, "Running")]
                  ELSE [agent EXCEPT !.pc = "err"]
    /\ UNCHANGED <<auth, conn, call, manifest, host, inst, unin, log, runs, faults, pre,
                   hist, stdout>>

(* run_agent_loop, lines 129-134: the flag is loaded; set, the loop         *)
(* returns, otherwise the thread sleeps.                                    *)
run_agent_loop ==
    /\ agent.pc = "loop"
    /\ agent' = IF agent.STOP_REQUESTED
                THEN [agent EXCEPT !.pc = "set_stopped", !.returned = TRUE]
                ELSE [agent EXCEPT !.pc = "sleep"]
    /\ UNCHANGED <<auth, conn, call, manifest, host, inst, unin, log, runs, faults, pre,
                   hist, stdout>>

(* std::thread::sleep returns *)
sleep ==
    /\ agent.pc = "sleep"
    /\ agent' = [agent EXCEPT !.pc = "loop", !.slept = TRUE]
    /\ UNCHANGED <<auth, conn, call, manifest, host, inst, unin, log, runs, faults, pre,
                   hist, stdout>>

(* run_service, lines 109-117 *)
set_status_stopped ==
    /\ agent.pc = "set_stopped"
    /\ \E ok \in BOOLEAN :
         agent' = IF ok THEN [agent EXCEPT !.pc = "done", !.status = Append(@, "Stopped")]
                  ELSE [agent EXCEPT !.pc = "err"]
    /\ UNCHANGED <<auth, conn, call, manifest, host, inst, unin, log, runs, faults, pre,
                   hist, stdout>>

(* The service manager calls the registered handler with a control event.   *)
control_event ==
    /\ agent.registered /\ agent.pc \notin {"done", "err"}
    /\ Len(agent.events) < MaxControls
    /\ \E e \in ServiceControl :
         agent' = [agent EXCEPT !.events = Append(@, e),
                                !.STOP_REQUESTED = control_handler(@, e)]
    /\ UNCHANGED <<auth, conn, call, manifest, host, inst, unin, log, runs, faults, pre,
                   hist, stdout>>

ServiceThread ==
    register \/ set_status_running \/ run_agent_loop \/ sleep \/ set_status_stopped

NextAgent ==
    \/ register
    \/ set_status_running
    \/ run_agent_loop
    \/ sleep
    \/ set_status_stopped
    \/ control_event

(* The service thread is scheduled and its sleep ends; the service manager  *)
(* sends control events when it likes.                                      *)
SpecAgent == InitAgent /\ [][NextAgent]_vars /\ WF_vars(ServiceThread)

StopReceived == \E n \in 1..Len(agent.events) : agent.events[n] = "Stop"

(* C39: once the control handler has received Stop, the agent loop          *)
(* eventually returns and the service then reports Stopped, after having    *)
(* reported Running; the stop flag is never reset; while no Stop has been   *)
(* received the loop never returns.  A status report that fails ends the    *)
(* service in error: before the loop when Running cannot be reported, after *)
(* it when Stopped cannot.                                                  *)
C39_AgentStopProtocol ==
    /\ [](agent.returned => StopReceived)
    /\ [](StopReceived => agent.STOP_REQUESTED)
    /\ [][agent.STOP_REQUESTED => agent'.STOP_REQUESTED]_vars
    /\ [](agent.status \in {<<>>, <<"Running">>, <<"Running", "Stopped">>})
    /\ [](agent.status = <<"Running", "Stopped">> => agent.returned)
    /\ StopReceived
         ~> \/ agent.pc = "done" /\ agent.returned /\ agent.status = <<"Running", "Stopped">>
            \/ agent.pc = "err" /\ (agent.returned \/ agent.status = <<>>)

(* The loop slept, an Interrogate and then a Stop arrived, the loop         *)
(* returned and Stopped was reported after Running.                         *)
C39_Witness ==
    /\ agent.pc = "done" /\ agent.slept /\ agent.returned
    /\ agent.events = <<"Interrogate", "Stop">>
    /\ agent.status = <<"Running", "Stopped">>
====
